---- MODULE Spec2Model ----
(***************************************************************************)
(* Workspace trust: WorkspaceTrustManagementService,                       *)
(* WorkspaceTrustRequestService, WorkspaceTrustTransitionManager and       *)
(* WorkspaceTrustState, as one state machine.  Every `await` of the code   *)
(* is a point where another handler may run; the code between two awaits   *)
(* is one step.  Two extension services are modelled next to it:           *)
(* CachedExtensionScanner._scanExtensionsWithCache with its CounterLogger, *)
(* and ExtensionFeaturesManagementService.getAccess.                       *)
(***************************************************************************)
EXTENDS Integers, Sequences, FiniteSets, Bags, TLC

\* ---------------------------------------------------------------- bounds
\* async operations in flight at a time
MaxTasks == 1
\* transition participants ever registered
MaxParticipants == 2
\* storage-change events queued for this window at a time
MaxNotifications == 1
\* requestOpenUris dialogs open at a time
MaxDialogs == 2
\* messages a scan of the extensions logs
MaxMessages == 2
\* getAccess calls of one extension for one feature
MaxAccess == 3

\* ------------------------------------------------------------------ URIs
\* A URI is a scheme and a path of one-character segments: /a, /a/b, /c.
UriA == [scheme |-> "file", path |-> <<1>>]
UriAB == [scheme |-> "file", path |-> <<1, 2>>]
UriC == [scheme |-> "file", path |-> <<3>>]
UriABC == [scheme |-> "file", path |-> <<1, 2, 3>>]
\* a folder of a virtual file system
UriV == [scheme |-> "vscode-vfs", path |-> <<1, 2>>]
\* /a/ : the segment 0 stands for a trailing path separator
UriASlash == [scheme |-> "file", path |-> <<1, 0>>]

\* extUri.isEqual
isEqual(u, v) == u = v

\* extUri.isEqualOrParent(base, parentCandidate)
isEqualOrParent(base, candidate) ==
    /\ base.scheme = candidate.scheme
    /\ Len(candidate.path) <= Len(base.path)
    /\ SubSeq(base.path, 1, Len(candidate.path)) = candidate.path

\* uri.fsPath.length: a separator and one character per segment
fsPathLength(u) == 2 * Len(u.path)

\* extUri.removeTrailingPathSeparator(uri)
removeTrailingPathSeparator(u) ==
    IF Len(u.path) > 0 /\ u.path[Len(u.path)] = 0
    THEN [u EXCEPT !.path = SubSeq(u.path, 1, Len(u.path) - 1)]
    ELSE u

\* URI.file(splitName(uri.fsPath).parentPath)
parentUri(u) ==
    [scheme |-> "file", path |-> IF Len(u.path) > 0 THEN SubSeq(u.path, 1, Len(u.path) - 1) ELSE <<>>]

\* --------------------------------------------------- optional booleans
\* boolean | undefined is one of "undefined", "true", "false"
Opt(b) == IF b THEN "true" ELSE "false"

\* o ?? d
Coalesce(o, d) == IF o = "undefined" THEN d ELSE o = "true"

\* ------------------------------------------------------------ workspaces
\* no workspace file
NoUri == [scheme |-> "none", path |-> <<>>]

EmptyWindow == [kind |-> "EMPTY", folders |-> <<>>, configuration |-> NoUri, untitled |-> FALSE]
SingleFolder == [kind |-> "FOLDER", folders |-> <<UriAB>>, configuration |-> NoUri, untitled |-> FALSE]
UntitledWorkspace == [kind |-> "WORKSPACE", folders |-> <<UriAB>>, configuration |-> UriC, untitled |-> TRUE]
MultiRoot == [kind |-> "WORKSPACE", folders |-> <<UriAB, UriC>>, configuration |-> UriC, untitled |-> TRUE]
SavedWorkspace == [kind |-> "WORKSPACE", folders |-> <<UriAB>>, configuration |-> UriC, untitled |-> FALSE]
VirtualFolder == [kind |-> "FOLDER", folders |-> <<UriV>>, configuration |-> NoUri, untitled |-> FALSE]

VARIABLES
    env,             \* configuration and environment service values (fixed per run)
    workspace,       \* workspaceService.getWorkspace() / getWorkbenchState()
    remoteAuthority, \* _remoteAuthority: resolved is FALSE while it is undefined, isTrusted is the
                     \* resolved options.isTrusted; rejected: the resolveAuthority promise rejected
    storage,         \* storageService value under WORKSPACE_TRUST_STORAGE_KEY: json is "absent"
                     \* (no value), "corrupt" (not JSON), "nolist" (an object without uriTrustInfo),
                     \* "primitive" (a number, a string or true), "notarray" (an object whose
                     \* uriTrustInfo is not an array) or "object"
    trustStateInfo,  \* _trustStateInfo: defined is FALSE before initializeWorkspaceTrust assigns it
    memento,         \* WorkspaceTrustState._mementoObject
    participants,    \* WorkspaceTrustTransitionManager.participants (a LinkedList)
    tasks,           \* the async operations in flight, a bag of records
    failure,         \* the async operation that rejected last, until the next one is called
    rs,              \* WorkspaceTrustRequestService: _trusted, and whether
                     \* _modalTrustRequestPromise and _modalTrustRequestResolver are set;
                     \* untrustedFilesSetting: the configuration value it reads and writes;
                     \* response: what requestOpenUris returned last, request: for which
                     \* uris, asked: after a dialog; remembered: a dialog was answered
                     \* Open with the checkbox checked
    promise,         \* the promise requestWorkspaceTrust created last
    extensionScan,   \* CachedExtensionScanner._scanExtensionsWithCache: the call, the cache
                     \* file and the CounterLogger of the scan
    extensionFeature \* ExtensionFeaturesManagementService: the state of one feature of one
                     \* extension and the getAccess calls that await its dialog

\* the workspace trust services
trustVars == <<env, workspace, remoteAuthority, storage, trustStateInfo, memento, participants, tasks, failure, rs, promise>>

\* the extension services
extensionVars == <<extensionScan, extensionFeature>>

vars == <<env, workspace, remoteAuthority, storage, trustStateInfo, memento, participants, tasks, failure, rs, promise, extensionScan, extensionFeature>>

\* -------------------------------------------------------- pure functions
\* isWorkspaceTrustEnabled(configurationService)
isWorkspaceTrustEnabled(e) ==
    IF e.isWeb
    THEN FALSE
    ELSE Coalesce(IF e.userValue # "undefined" THEN e.userValue ELSE e.defaultValue, FALSE)

\* JSON.stringify(this._trustStateInfo): one <<scheme, path, trusted>> per entry
Stringify(info) ==
    [json |-> "object",
     uriTrustInfo |-> [i \in 1..Len(info) |-> <<info[i].uri.scheme, info[i].uri.path, info[i].trusted>>]]

\* a loadTrustInfo that keeps every entry
loadTrustInfoUnfiltered(stored) ==
    LET list == IF stored.json = "object" THEN stored.uriTrustInfo ELSE <<>>
    IN [i \in 1..Len(list) |->
          [uri |-> [scheme |-> list[i][1], path |-> list[i][2]], trusted |-> list[i][3]]]

\* loadTrustInfo(): the stored string parsed, revived and filtered
loadTrustInfo(stored) ==
    LET list == IF stored.json = "object" THEN stored.uriTrustInfo ELSE <<>>
        revived == [i \in 1..Len(list) |->
                      [uri |-> [scheme |-> list[i][1], path |-> list[i][2]], trusted |-> list[i][3]]]
    IN SelectSeq(revived, LAMBDA info : info.trusted)

\* loadTrustInfo() throws a TypeError: the assignment of uriTrustInfo to a value that is
\* not an object, or the map of a uriTrustInfo that is not an array
loadTrustInfoThrows(stored) == stored.json \in {"primitive", "notarray"}

\* this.storageKey
storageKey == "content.trust.model.key"

\* a listener that reloads without the comparison
didChangeValueListenerAlways(key, stored, tsi) ==
    IF key # storageKey THEN [do |-> "nothing", info |-> tsi]
    ELSE IF loadTrustInfoThrows(stored) THEN [do |-> "throws", info |-> tsi]
    ELSE [do |-> "reload", info |-> [defined |-> TRUE, uriTrustInfo |-> loadTrustInfo(stored)]]

\* the listener of storageService.onDidChangeValue up to its call of updateWorkspaceTrust,
\* for the event of key with the value stored: what it does, and _trustStateInfo after it
didChangeValueListener(key, stored, tsi) ==
    IF key # storageKey THEN [do |-> "nothing", info |-> tsi]
    ELSE IF loadTrustInfoThrows(stored) THEN [do |-> "throws", info |-> tsi]
    ELSE IF ~tsi.defined \/ Stringify(tsi.uriTrustInfo) # Stringify(loadTrustInfo(stored))
    THEN [do |-> "reload", info |-> [defined |-> TRUE, uriTrustInfo |-> loadTrustInfo(stored)]]
    ELSE [do |-> "nothing", info |-> tsi]

RECURSIVE UriTrustScan(_, _, _, _)
\* the loop of getUriTrustInfo: acc is (maxLength, resultState, resultUri)
UriTrustScan(info, uri, i, acc) ==
    IF i > Len(info)
    THEN acc
    ELSE IF isEqualOrParent(uri, info[i].uri) /\ fsPathLength(info[i].uri) > acc.maxLength
         THEN UriTrustScan(info, uri, i + 1,
                  [maxLength |-> fsPathLength(info[i].uri), trusted |-> info[i].trusted, uri |-> info[i].uri])
         ELSE UriTrustScan(info, uri, i + 1, acc)

\* a getUriTrustInfo that takes the first entry that is equal or a parent
getUriTrustInfoFirstMatch(info, uri) ==
    LET M == {j \in 1..Len(info) : isEqualOrParent(uri, info[j].uri)}
    IN IF M = {}
       THEN [trusted |-> FALSE, uri |-> uri]
       ELSE LET j == CHOOSE j \in M : \A i \in M : j <= i
            IN [trusted |-> info[j].trusted, uri |-> info[j].uri]

\* getUriTrustInfo(uri) over the list info
getUriTrustInfo(info, uri) ==
    LET r == UriTrustScan(info, uri, 1, [maxLength |-> -1, trusted |-> FALSE, uri |-> uri])
    IN [trusted |-> r.trusted, uri |-> r.uri]

\* a getUrisTrust that is content with one trusted uri
getUrisTrustAny(info, uris) ==
    \E k \in 1..Len(uris) : getUriTrustInfo(info, uris[k]).trusted

\* getUrisTrust(uris)
getUrisTrust(info, uris) ==
    \A k \in 1..Len(uris) : getUriTrustInfo(info, uris[k]).trusted

RECURSIVE SetUrisTrustLoop(_, _, _, _)
\* the loop of setUrisTrust: acc is (list, changed)
SetUrisTrustLoop(uris, trusted, k, acc) ==
    IF k > Len(uris)
    THEN acc
    ELSE LET uri == uris[k]
             found == \E j \in 1..Len(acc.list) : isEqual(acc.list[j].uri, uri)
             kept == SelectSeq(acc.list, LAMBDA info : ~isEqual(info.uri, uri))
         IN IF trusted
            THEN IF ~found
                 THEN SetUrisTrustLoop(uris, trusted, k + 1,
                          [list |-> Append(acc.list, [uri |-> uri, trusted |-> TRUE]), changed |-> TRUE])
                 ELSE SetUrisTrustLoop(uris, trusted, k + 1, acc)
            ELSE SetUrisTrustLoop(uris, trusted, k + 1,
                     [list |-> kept, changed |-> acc.changed \/ Len(kept) # Len(acc.list)])

\* the uris getWorkspaceUris returns: the folders it iterates, then the
\* workspace file unless the workspace is untitled
WorkspaceUris(folders, ws) ==
    IF ws.configuration # NoUri /\ ~ws.untitled
    THEN Append(folders, ws.configuration)
    ELSE folders

\* ---------------------------------------------------- WorkspaceTrustState
\* get isTrusted() ?? false, as isWorkpaceTrusted() reads it
IsTrustedOf(m) == Coalesce(m.isTrusted, FALSE)

\* get acceptsOutOfWorkspaceFiles
AcceptsOf(m) == Coalesce(m.acceptsOutOfWorkspaceFiles, FALSE)

\* set isTrusted(value)
\* a setter that leaves acceptsOutOfWorkspaceFiles alone
SetIsTrustedKeepsFlag(m, value) ==
    [isTrusted |-> Opt(value), acceptsOutOfWorkspaceFiles |-> m.acceptsOutOfWorkspaceFiles]

SetIsTrusted(m, value) ==
    [isTrusted |-> Opt(value),
     acceptsOutOfWorkspaceFiles |-> IF ~value THEN Opt(value) ELSE m.acceptsOutOfWorkspaceFiles]

\* isWorkpaceTrusted()
isWorkpaceTrusted == IsTrustedOf(memento)

\* get acceptsOutOfWorkspaceFiles() of the management service
acceptsOutOfWorkspaceFiles == AcceptsOf(memento)

RECURSIVE SetTrustedFoldersLoop(_, _, _)
\* the loop of setTrustedFolders: acc is the list built so far
SetTrustedFoldersLoop(uris, k, acc) ==
    IF k > Len(uris)
    THEN acc
    ELSE LET cleanUri == removeTrailingPathSeparator(uris[k])
             added == \E j \in 1..Len(acc) : isEqual(acc[j].uri, cleanUri)
         IN IF added
            THEN SetTrustedFoldersLoop(uris, k + 1, acc)
            ELSE SetTrustedFoldersLoop(uris, k + 1, Append(acc, [trusted |-> TRUE, uri |-> cleanUri]))

\* canSetParentFolderTrust()
canSetParentFolderTrust(ws) == ws.kind = "FOLDER" /\ ws.folders[1].scheme = "file"

\* a canSetWorkspaceTrust without the check of the parent folder
canSetWorkspaceTrustIgnoresParent(e, ra, ws, m, tsi) ==
    IF e.remoteAuthority /\ (~ra.resolved \/ ra.isTrusted # "undefined") THEN "false"
    ELSE IF ws.kind = "EMPTY" THEN "true"
    ELSE IF ~IsTrustedOf(m) THEN "true"
    ELSE IF ~(ws.kind = "FOLDER" /\ ws.folders[1].scheme = "file") THEN "false"
    ELSE IF ~tsi.defined THEN "throws"
    ELSE LET trustInfo == getUriTrustInfo(tsi.uriTrustInfo, ws.folders[1])
         IN IF ~trustInfo.trusted \/ ~isEqual(ws.folders[1], trustInfo.uri) THEN "false"
            ELSE "true"

\* canSetWorkspaceTrust(): "true", "false", or "throws" when it reads the list of
\* trusted folders before initializeWorkspaceTrust has assigned it
canSetWorkspaceTrust(e, ra, ws, m, tsi) ==
    IF e.remoteAuthority /\ (~ra.resolved \/ ra.isTrusted # "undefined") THEN "false"
    ELSE IF ws.kind = "EMPTY" THEN "true"
    ELSE IF ~IsTrustedOf(m) THEN "true"
    ELSE IF ~(ws.kind = "FOLDER" /\ ws.folders[1].scheme = "file") THEN "false"
    ELSE IF ~tsi.defined THEN "throws"
    ELSE LET trustInfo == getUriTrustInfo(tsi.uriTrustInfo, ws.folders[1])
         IN IF ~trustInfo.trusted \/ ~isEqual(ws.folders[1], trustInfo.uri) THEN "false"
            ELSE IF canSetParentFolderTrust(ws)
                    /\ getUriTrustInfo(tsi.uriTrustInfo, parentUri(ws.folders[1])).trusted
            THEN "false"
            ELSE "true"

\* ------------------------------------------------------------ LinkedList
Nodes == 1..MaxParticipants

EmptyList ==
    [first |-> 0, last |-> 0, next |-> [n \in Nodes |-> 0], prev |-> [n \in Nodes |-> 0],
     count |-> 0, removed |-> {}]

\* LinkedList.push(element): the new node n goes to the end
LinkedListPush(l, n) ==
    IF l.first = 0
    THEN [l EXCEPT !.first = n, !.last = n, !.count = n]
    ELSE [l EXCEPT !.last = n, !.prev[n] = l.last, !.next[l.last] = n, !.count = n]

\* LinkedList._remove(node); the removed node keeps its own pointers
LinkedListRemove(l, n) ==
    LET r == [l EXCEPT !.removed = l.removed \cup {n}]
    IN IF l.prev[n] # 0 /\ l.next[n] # 0
       THEN [r EXCEPT !.next[l.prev[n]] = l.next[n], !.prev[l.next[n]] = l.prev[n]]
       ELSE IF l.prev[n] = 0 /\ l.next[n] = 0
       THEN [r EXCEPT !.first = 0, !.last = 0]
       ELSE IF l.next[n] = 0
       THEN [r EXCEPT !.last = l.prev[l.last], !.next[l.prev[l.last]] = 0]
       ELSE [r EXCEPT !.first = l.next[l.first], !.prev[l.next[l.first]] = 0]

\* ------------------------------------------------------- async operations
\* op: "init" initializeWorkspaceTrust, "event" a workspace listener, "remote" the
\* resolveAuthority continuation, "set" setWorkspaceTrust, "complete" completeRequest,
\* "uris" setUrisTrust, "folders" setTrustedFolders, "storage" the storage listener,
\* "notify" a storage-change event that is queued (pc "posted", arg its key),
\* "open" requestOpenUris (pc "dialog" while its dialog is shown).
\* pc: the await the operation is suspended at.  val: the value calculated or being
\* applied.  node: the participant that is running.  fired: onDidChangeTrust was
\* fired by this operation.  accepted: acceptsOutOfWorkspaceFiles as it read when the
\* operation assigned the trust state.  err, skipped: why the operation rejected, and
\* the participant that would have run next.  saved: saveTrustInfo ran in this
\* operation (the list was stored and onDidChangeTrustedFolders fired).  disposed: the
\* participants whose handle was disposed when the operation called participate.
\* canSet, was: what canSetWorkspaceTrust() and isWorkpaceTrusted() returned when
\* setWorkspaceTrust was called, where a specification records them.
NoTask ==
    [op |-> "none", arg |-> "undefined", pc |-> "idle", val |-> FALSE, uris |-> <<>>,
     node |-> 0, fired |-> FALSE, accepted |-> FALSE, err |-> "none", skipped |-> 0,
     saved |-> FALSE, disposed |-> {}, canSet |-> "none", was |-> FALSE]

NewTask(op, arg) == [NoTask EXCEPT !.op = op, !.arg = arg]

\* a rejected operation: what is left of it is the error and where it happened
Rejected(t, err) == [NoTask EXCEPT !.pc = "rejected", !.err = err, !.node = t.node]

\* the operations in flight
Running == BagToSet(tasks)

\* the operations of the bag b that have started to run: not the events still queued
Started(b) == LET S == {t \in BagToSet(b) : t.pc \notin {"posted", "dialog"}} IN BagCardinality([t \in S |-> b[t]])

\* the storage-change events queued
Posted == LET S == {t \in Running : t.pc = "posted"} IN BagCardinality([t \in S |-> tasks[t]])

\* the requestOpenUris dialogs that are shown
Dialogs == LET S == {t \in Running : t.pc = "dialog"} IN BagCardinality([t \in S |-> tasks[t]])

\* a further operation may start
CanStart == Started(tasks) < MaxTasks

\* no continuation is queued: every operation in flight awaits a participant, a dialog
\* or an event from outside, so the event loop takes its next task
MicrotasksDrained == \A t \in Running : t.pc \in {"part", "posted", "dialog"}

\* the bag b with the operation t in it, when t is still in flight
With(b, t) == IF t.pc \in {"idle", "rejected"} THEN b ELSE b (+) SetToBag({t})

\* operation t has run to its next await (or to its end) and is now t2
Becomes(t, t2) ==
    /\ tasks' = With(tasks (-) SetToBag({t}), t2)
    /\ failure' = IF t2.pc = "rejected" THEN t2 ELSE failure

\* a new operation has run to its first await (or to its end) and is now t2
Starts(t2) ==
    /\ tasks' = With(tasks, t2)
    /\ failure' = NoTask

\* what runs when updateWorkspaceTrust has returned to the operation that awaited it;
\* an operation with nothing left to run leaves its slot
Continue(t) ==
    IF t.op = "complete" THEN [t EXCEPT !.pc = "resolve"]
    ELSE IF t.op = "remote" THEN [t EXCEPT !.pc = "signal"]
    ELSE NoTask

\* a participate that walks the list from its end
participateFromLast(t, ps) ==
    IF ps.last = 0
    THEN [t EXCEPT !.pc = "fire", !.disposed = ps.removed]
    ELSE [t EXCEPT !.pc = "part", !.node = ps.last, !.disposed = ps.removed]

\* WorkspaceTrustTransitionManager.participate up to its first await
participate(t, ps) ==
    IF ps.first = 0
    THEN [t EXCEPT !.pc = "fire", !.disposed = ps.removed]
    ELSE [t EXCEPT !.pc = "part", !.node = ps.first, !.disposed = ps.removed]

\* an updateWorkspaceTrust without the comparison with the current state
updateWorkspaceTrustAlways(t, trusted, m, ps, cached) ==
    [task |-> participate([t EXCEPT !.val = trusted, !.accepted = AcceptsOf(m)], ps),
     memento |-> SetIsTrusted(m, trusted),
     cached |-> cached]

\* an updateWorkspaceTrust that fires onDidChangeTrust before it awaits participate
updateWorkspaceTrustFiresFirst(t, trusted, m, ps, cached) ==
    IF IsTrustedOf(m) = trusted
    THEN [task |-> Continue(t), memento |-> m, cached |-> cached]
    ELSE [task |-> participate([t EXCEPT !.val = trusted, !.accepted = AcceptsOf(m), !.fired = TRUE], ps),
          memento |-> SetIsTrusted(m, trusted),
          cached |-> trusted]

\* an updateWorkspaceTrust that does not store the state before it awaits participate
updateWorkspaceTrustWithoutStore(t, trusted, m, ps, cached) ==
    IF IsTrustedOf(m) = trusted
    THEN [task |-> Continue(t), memento |-> m, cached |-> cached]
    ELSE [task |-> participate([t EXCEPT !.val = trusted, !.accepted = AcceptsOf(m)], ps),
          memento |-> m,
          cached |-> cached]

\* updateWorkspaceTrust from the comparison with the current state up to the await of
\* participate: the new memento, the task, and the request service's cached value
updateWorkspaceTrust(t, trusted, m, ps, cached) ==
    IF IsTrustedOf(m) = trusted
    THEN [task |-> Continue(t), memento |-> m, cached |-> cached]
    ELSE [task |-> participate([t EXCEPT !.val = trusted, !.accepted = AcceptsOf(m)], ps),
          memento |-> SetIsTrusted(m, trusted),
          cached |-> cached]

\* a calculateWorkspaceTrust that looks at the remote authority first
calculateWorkspaceTrustRemoteFirst(t, e, ws, ra, m) ==
    IF e.remoteAuthority THEN [t EXCEPT !.pc = "cmp", !.val = Coalesce(ra.isTrusted, FALSE)]
    ELSE IF ~isWorkspaceTrustEnabled(e) THEN [t EXCEPT !.pc = "cmp", !.val = TRUE]
    ELSE IF e.extensionTestsLocationURI THEN [t EXCEPT !.pc = "cmp", !.val = TRUE]
    ELSE IF ws.kind = "EMPTY" THEN [t EXCEPT !.pc = "cmp", !.val = Coalesce(m.isTrusted, FALSE)]
    ELSE [t EXCEPT !.pc = "calcUris", !.uris = ws.folders]

\* calculateWorkspaceTrust up to its first await: the cases decided without the uris
calculateWorkspaceTrust(t, e, ws, ra, m) ==
    IF ~isWorkspaceTrustEnabled(e) THEN [t EXCEPT !.pc = "cmp", !.val = TRUE]
    ELSE IF e.extensionTestsLocationURI THEN [t EXCEPT !.pc = "cmp", !.val = TRUE]
    ELSE IF e.remoteAuthority THEN [t EXCEPT !.pc = "cmp", !.val = Coalesce(ra.isTrusted, FALSE)]
    ELSE IF ws.kind = "EMPTY" THEN [t EXCEPT !.pc = "cmp", !.val = Coalesce(m.isTrusted, FALSE)]
    ELSE [t EXCEPT !.pc = "calcUris", !.uris = ws.folders]

\* a setWorkspaceTrust that treats the empty window like a folder
setWorkspaceTrustByFolders(t, trusted, ws, m, ps, cached) ==
    [task |-> [t EXCEPT !.pc = "wsUris", !.uris = ws.folders], memento |-> m, cached |-> cached]

\* setWorkspaceTrust(trusted) up to its first await
setWorkspaceTrust(t, trusted, ws, m, ps, cached) ==
    IF ws.kind = "EMPTY"
    THEN updateWorkspaceTrust(t, trusted, m, ps, cached)
    ELSE [task |-> [t EXCEPT !.pc = "wsUris", !.uris = ws.folders], memento |-> m, cached |-> cached]

\* The promise requestWorkspaceTrust created last.  value: "none" before the first
\* request, "pending", or what the resolver was called with.  by: the method that called
\* the resolver.  shared: a later requestWorkspaceTrust call returned this promise too.
\* initiated: the onDidInitiateWorkspaceTrustRequest signals fired for it.  afterCancel:
\* it is pending and the promise before it was cancelled.  created: the trust state
\* and the stored list when it was created, where a specification records them.
NoPromise ==
    [value |-> "none", by |-> "none", shared |-> FALSE, initiated |-> 0, afterCancel |-> FALSE,
     created |-> [trusted |-> FALSE, stored |-> [json |-> "absent", uriTrustInfo |-> <<>>]]]

\* new Promise(resolve => ...) in requestWorkspaceTrust, replacing the promise p
NewPromise(p) ==
    [value |-> "pending", by |-> "none", shared |-> FALSE, initiated |-> 0,
     afterCancel |-> p.by = "cancelRequest", created |-> NoPromise.created]

\* the trust state and the stored list as a request finds them when it is created
TrustAtCreation == [trusted |-> isWorkpaceTrusted, stored |-> storage]

\* _modalTrustRequestResolver(value)
CallResolver(p, value, by) == [p EXCEPT !.value = value, !.by = by, !.afterCancel = FALSE]

\* a resolveRequest that passes its argument on without the cached value
resolveRequestRaw(r, p, trusted, by) ==
    IF r.resolver
    THEN [rs |-> [r EXCEPT !.resolver = FALSE, !.promise = FALSE],
          promise |-> CallResolver(p, trusted, by)]
    ELSE [rs |-> r, promise |-> p]

\* resolveRequest(trusted) for the request service r
resolveRequest(r, p, trusted, by) ==
    IF r.resolver
    THEN [rs |-> [r EXCEPT !.resolver = FALSE, !.promise = FALSE],
          promise |-> CallResolver(p, Opt(Coalesce(trusted, r.trusted)), by)]
    ELSE [rs |-> r, promise |-> p]

\* a requestOpenUris that asks the workspace's flag before the setting
requestOpenUrisFlagFirst(trusted, tsi, uris, setting, accepts) ==
    IF ~trusted THEN "Open"
    ELSE IF Len(uris) > 0 /\ ~tsi.defined THEN "throws"
    ELSE IF getUrisTrust(tsi.uriTrustInfo, uris) THEN "Open"
    ELSE IF accepts THEN "Open"
    ELSE IF setting = "newWindow" THEN "OpenInNewWindow"
    ELSE IF setting = "open" THEN "Open"
    ELSE "dialog"

\* requestOpenUris(uris) up to its dialog: what it returns, "dialog" when it shows the
\* dialog, "throws" when getUriTrustInfo reads a list that is not there.  trusted is the
\* cached _trusted, setting untrustedFilesSetting, accepts acceptsOutOfWorkspaceFiles.
requestOpenUris(trusted, tsi, uris, setting, accepts) ==
    IF ~trusted THEN "Open"
    ELSE IF Len(uris) > 0 /\ ~tsi.defined THEN "throws"
    ELSE IF getUrisTrust(tsi.uriTrustInfo, uris) THEN "Open"
    ELSE IF setting = "newWindow" THEN "OpenInNewWindow"
    ELSE IF setting = "open" THEN "Open"
    ELSE IF accepts THEN "Open"
    ELSE "dialog"

\* a saveResponseIfChecked that saves whatever the checkbox says
saveResponseAlways(setting, response, checked) ==
    IF response = "Open" THEN "open"
    ELSE IF response = "OpenInNewWindow" THEN "newWindow"
    ELSE setting

\* saveResponseIfChecked(response, checked): untrustedFilesSetting after it
saveResponseIfChecked(setting, response, checked) ==
    IF checked
    THEN IF response = "Open" THEN "open"
         ELSE IF response = "OpenInNewWindow" THEN "newWindow"
         ELSE setting
    ELSE setting

\* the switch on result.choice of the dialog shown for uris, for the memento m and the
\* request service r
dialogResult(m, r, uris, choice, checked) ==
    LET returned == [r EXCEPT !.request = uris, !.asked = TRUE]
    IN IF choice = 0
       THEN [memento |-> [m EXCEPT !.acceptsOutOfWorkspaceFiles = Opt(TRUE)],
             rs |-> [returned EXCEPT !.untrustedFilesSetting = saveResponseIfChecked(@, "Open", checked),
                                     !.response = "Open",
                                     !.remembered = @ \/ checked]]
       ELSE IF choice = 1
       THEN [memento |-> m,
             rs |-> [returned EXCEPT !.untrustedFilesSetting = saveResponseIfChecked(@, "OpenInNewWindow", checked),
                                     !.response = "OpenInNewWindow"]]
       ELSE [memento |-> m, rs |-> [returned EXCEPT !.response = "Cancel"]]

\* ------------------------------------------------- the extension scanner
\* new CounterLogger(log)
NewCounterLogger == [errorCnt |-> 0, warnCnt |-> 0, infoCnt |-> 0]

\* CounterLogger.error(source, message): the fields after the call
CounterLoggerError(l) == l

\* CounterLogger.warn(source, message): the fields after the call
CounterLoggerWarn(l) == l

\* CounterLogger.info(source, message): the fields after the call
CounterLoggerInfo(l) == l

\* No scan has been called.  pc: "idle", "scanning" (in ExtensionScanner.scanExtensions)
\* or "returned".  devMode: input.devMode.  counting: the scan logs to counterLogger.
\* cache: the cache file, "absent" (none, or not JSON), "match" (its input equals the
\* input of the scan) or "stale".  cacheErrors: the errors logged by the scan whose
\* result the cache file holds.  errors, warns, infos: the calls the scan has made to its
\* logger.  written: this call wrote the cache file.  fromCache: it returned the
\* contents of the cache file.  validating: the timer of _validateExtensionsCache is set.
NoScan ==
    [pc |-> "idle", devMode |-> FALSE, counting |-> FALSE, counterLogger |-> NewCounterLogger,
     cache |-> "absent", cacheErrors |-> 0, errors |-> 0, warns |-> 0, infos |-> 0,
     written |-> FALSE, fromCache |-> FALSE, validating |-> FALSE]

\* _scanExtensionsWithCache(..., input, log) up to the await of scanExtensions, or to
\* its return with the cached result
scanExtensionsWithCache(x, devMode) ==
    LET call == [x EXCEPT !.devMode = devMode, !.counterLogger = NewCounterLogger,
                          !.errors = 0, !.warns = 0, !.infos = 0,
                          !.written = FALSE, !.fromCache = FALSE, !.counting = FALSE]
    IN IF devMode
       THEN [call EXCEPT !.pc = "scanning"]
       ELSE IF x.cache = "match"
       THEN [call EXCEPT !.pc = "returned", !.fromCache = TRUE, !.validating = TRUE]
       ELSE [call EXCEPT !.pc = "scanning", !.counting = TRUE]

\* _scanExtensionsWithCache from the return of scanExtensions: the cache file is written
\* when the counter of errors is 0; wrote: pfs.writeFile did not fail
scanExtensionsReturns(x, wrote) ==
    IF x.counting /\ x.counterLogger.errorCnt = 0
    THEN IF wrote
         THEN [x EXCEPT !.pc = "returned", !.cache = "match", !.cacheErrors = x.errors,
                        !.written = TRUE]
         ELSE [x EXCEPT !.pc = "returned"]
    ELSE [x EXCEPT !.pc = "returned"]

\* _validateExtensionsCache: the cache file is removed when a second scan differs from it
validateExtensionsCache(x, equal) ==
    IF x.cache = "absent" \/ equal
    THEN [x EXCEPT !.validating = FALSE]
    ELSE [x EXCEPT !.validating = FALSE, !.cache = "absent", !.cacheErrors = 0]

\* ------------------------------------------------ the extension features
\* The state of one registered feature for one extension, nothing decided.
\* requireUserConsent: feature.access.requireUserConsent.  disabled:
\* featureState.disabled.  totalCount: accessData.totalCount.  calls: the getAccess
\* calls made.  confirming: those that await dialogService.confirm.  shown: the dialogs
\* shown.  answers: what the dialogs were answered.  returned: what getAccess returned
\* last.
NoFeatureState ==
    [requireUserConsent |-> FALSE, disabled |-> "undefined", totalCount |-> 0, calls |-> 0,
     confirming |-> 0, shown |-> 0, answers |-> {}, returned |-> "none"]

\* setEnablement(extension, featureId, enabled) for a registered feature
setEnablement(f, enabled) ==
    IF f.disabled # Opt(~enabled) THEN [f EXCEPT !.disabled = Opt(~enabled)] ELSE f

\* the end of getAccess: the access is counted and true is returned
countAccess(f) == [f EXCEPT !.totalCount = @ + 1, !.returned = "true"]

\* getAccess(extension, featureId) up to the await of dialogService.confirm, or to its
\* return
getAccess(f) ==
    LET call == [f EXCEPT !.calls = @ + 1]
    IN IF call.disabled = "true"
       THEN [call EXCEPT !.returned = "false"]
       ELSE IF call.disabled = "undefined"
       THEN IF call.requireUserConsent
            THEN [call EXCEPT !.confirming = @ + 1, !.shown = @ + 1]
            ELSE countAccess(setEnablement(call, TRUE))
       ELSE countAccess(call)

\* getAccess from the return of dialogService.confirm with confirmed
getAccessConfirmed(f, confirmed) ==
    LET answered == [f EXCEPT !.confirming = @ - 1, !.answers = @ \cup {confirmed}]
        set == setEnablement(answered, confirmed)
    IN IF ~confirmed THEN [set EXCEPT !.returned = "false"] ELSE countAccess(set)

\* neither extension service has been called
ExtensionsIdle == extensionScan = NoScan /\ extensionFeature = NoFeatureState

\* ------------------------------------------------------------------- Init
EnvChoices ==
    {[isWeb |-> FALSE, userValue |-> "undefined", defaultValue |-> "true",
      extensionTestsLocationURI |-> FALSE, remoteAuthority |-> FALSE]}

WorkspaceChoices == {EmptyWindow, SingleFolder}

StoredChoices ==
    {[json |-> "absent", uriTrustInfo |-> <<>>],
     Stringify(<<[uri |-> UriAB, trusted |-> TRUE]>>)}

\* the memento a fresh workspace has, and those an earlier session leaves
MementoChoices ==
    {[isTrusted |-> "undefined", acceptsOutOfWorkspaceFiles |-> "undefined"],
     [isTrusted |-> "true", acceptsOutOfWorkspaceFiles |-> "undefined"],
     [isTrusted |-> "true", acceptsOutOfWorkspaceFiles |-> "true"],
     [isTrusted |-> "false", acceptsOutOfWorkspaceFiles |-> "false"]}

Init ==
    /\ env \in EnvChoices
    /\ workspace \in WorkspaceChoices
    /\ remoteAuthority = [resolved |-> FALSE, isTrusted |-> "undefined", rejected |-> FALSE]
    /\ storage \in StoredChoices
    /\ trustStateInfo = [defined |-> FALSE, uriTrustInfo |-> <<>>]
    /\ memento \in MementoChoices
    /\ participants = EmptyList
    /\ tasks = EmptyBag
    /\ failure = NoTask
    /\ rs = [trusted |-> IsTrustedOf(memento), promise |-> FALSE, resolver |-> FALSE,
             untrustedFilesSetting |-> "prompt", response |-> "none", request |-> <<>>,
             asked |-> FALSE, remembered |-> FALSE]
    /\ promise = NoPromise
    /\ ExtensionsIdle

\* ---------------------------------------------------------------- actions
\* initializeWorkspaceTrust(), to the await of calculateWorkspaceTrust
initializeWorkspaceTrust ==
    /\ ~trustStateInfo.defined
    /\ CanStart
    /\ IF loadTrustInfoThrows(storage)
       THEN /\ failure' = Rejected(NewTask("init", "undefined"), "load")
            /\ UNCHANGED <<trustStateInfo, tasks>>
       ELSE /\ trustStateInfo' = [defined |-> TRUE, uriTrustInfo |-> loadTrustInfo(storage)]
            /\ Starts(calculateWorkspaceTrust(NewTask("init", "undefined"), env, workspace,
                                              remoteAuthority, memento))
    /\ UNCHANGED <<env, workspace, remoteAuthority, storage, memento, participants, rs, promise, extensionVars>>

\* calculateWorkspaceTrust resumes with the workspace uris and reads the trusted folders
calculateResume(t) ==
    /\ t.pc = "calcUris"
    /\ LET uris == WorkspaceUris(t.uris, workspace)
       IN Becomes(t, IF Len(uris) > 0 /\ ~trustStateInfo.defined
                     THEN Rejected(t, "uninit")
                     ELSE [t EXCEPT !.pc = "cmp",
                                    !.val = getUrisTrust(trustStateInfo.uriTrustInfo, uris)])
    /\ UNCHANGED <<env, workspace, remoteAuthority, storage, trustStateInfo, memento, participants, rs, promise, extensionVars>>

\* an initializeWorkspaceTrust that applies the calculated state as a transition
initializeAssignTransitions(t) ==
    /\ t.pc = "cmp" /\ t.op = "init"
    /\ LET r == updateWorkspaceTrust(t, t.val, memento, participants, rs.trusted)
       IN /\ Becomes(t, r.task)
          /\ memento' = r.memento
    /\ UNCHANGED <<env, workspace, remoteAuthority, storage, trustStateInfo, participants, rs, promise, extensionVars>>

\* initializeWorkspaceTrust resumes and assigns the calculated state
initializeAssign(t) ==
    /\ t.pc = "cmp" /\ t.op = "init"
    /\ memento' = SetIsTrusted(memento, t.val)
    /\ Becomes(t, NoTask)
    /\ UNCHANGED <<env, workspace, remoteAuthority, storage, trustStateInfo, participants, rs, promise, extensionVars>>

\* updateWorkspaceTrust resumes with the calculated value
updateResume(t) ==
    /\ t.pc = "cmp" /\ t.op # "init"
    /\ LET r == updateWorkspaceTrust(t, t.val, memento, participants, rs.trusted)
       IN /\ Becomes(t, r.task)
          /\ memento' = r.memento
          /\ rs' = [rs EXCEPT !.trusted = r.cached]
    /\ UNCHANGED <<env, workspace, remoteAuthority, storage, trustStateInfo, participants, promise, extensionVars>>

\* the running participant's promise resolves: participate goes on to node.next
participantResolves(t) ==
    /\ t.pc = "part"
    /\ LET nxt == participants.next[t.node]
       IN Becomes(t, IF nxt = 0 THEN [t EXCEPT !.pc = "fire", !.node = 0] ELSE [t EXCEPT !.node = nxt])
    /\ UNCHANGED <<env, workspace, remoteAuthority, storage, trustStateInfo, memento, participants, rs, promise, extensionVars>>

\* a participate that catches the rejection and goes on to node.next
participantRejectsGoesOn(t) ==
    /\ t.pc = "part"
    /\ LET nxt == participants.next[t.node]
       IN Becomes(t, IF nxt = 0 THEN [t EXCEPT !.pc = "fire", !.node = 0] ELSE [t EXCEPT !.node = nxt])
    /\ UNCHANGED <<env, workspace, remoteAuthority, storage, trustStateInfo, memento, participants, rs, promise, extensionVars>>

\* the running participant's promise rejects: participate and its awaiters reject
participantRejects(t) ==
    /\ t.pc = "part"
    /\ Becomes(t, [Rejected(t, "participant") EXCEPT !.skipped = participants.next[t.node]])
    /\ UNCHANGED <<env, workspace, remoteAuthority, storage, trustStateInfo, memento, participants, rs, promise, extensionVars>>

\* updateWorkspaceTrust resumes after participate: _onDidChangeTrust.fire(trusted),
\* whose listener in the request service stores the value
fireDidChangeTrust(t) ==
    /\ t.pc = "fire"
    /\ Becomes(t, Continue([t EXCEPT !.fired = TRUE]))
    /\ rs' = [rs EXCEPT !.trusted = t.val]
    /\ UNCHANGED <<env, workspace, remoteAuthority, storage, trustStateInfo, memento, participants, promise, extensionVars>>

\* setWorkspaceTrust(trusted) called by the host as the operation called, to its first
\* await
SetWorkspaceTrustCall(called, trusted) ==
    /\ CanStart
    /\ LET r == setWorkspaceTrust(called, trusted, workspace, memento, participants, rs.trusted)
       IN /\ Starts(r.task)
          /\ memento' = r.memento
          /\ rs' = [rs EXCEPT !.trusted = r.cached]
    /\ UNCHANGED <<env, workspace, remoteAuthority, storage, trustStateInfo, participants, promise, extensionVars>>

\* setWorkspaceTrust(trusted) called by the host, to its first await
SetWorkspaceTrust(trusted) == SetWorkspaceTrustCall(NewTask("set", Opt(trusted)), trusted)

\* the same, the operation recording what canSetWorkspaceTrust() and isWorkpaceTrusted()
\* return at the call
SetWorkspaceTrustRecorded(trusted) ==
    SetWorkspaceTrustCall([NewTask("set", Opt(trusted)) EXCEPT
                              !.canSet = canSetWorkspaceTrust(env, remoteAuthority, workspace,
                                                              memento, trustStateInfo),
                              !.was = isWorkpaceTrusted],
                          trusted)

\* setWorkspaceTrust resumes with the workspace uris: setUrisTrust, and when the list
\* changed saveTrustInfo up to the await inside updateWorkspaceTrust
setUrisTrust(t) ==
    /\ t.pc = "wsUris"
    /\ LET uris == WorkspaceUris(t.uris, workspace)
           r == SetUrisTrustLoop(uris, t.arg = "true", 1,
                                 [list |-> trustStateInfo.uriTrustInfo, changed |-> FALSE])
       IN IF Len(uris) > 0 /\ ~trustStateInfo.defined
          THEN /\ Becomes(t, Rejected(t, "uninit"))
               /\ UNCHANGED <<storage, trustStateInfo>>
          ELSE IF r.changed
          THEN /\ trustStateInfo' = [trustStateInfo EXCEPT !.uriTrustInfo = r.list]
               /\ storage' = Stringify(r.list)
               /\ Becomes(t, calculateWorkspaceTrust([t EXCEPT !.saved = TRUE], env, workspace,
                                                     remoteAuthority, memento))
          ELSE /\ Becomes(t, Continue(t))
               /\ UNCHANGED <<storage, trustStateInfo>>
    /\ UNCHANGED <<env, workspace, remoteAuthority, memento, participants, rs, promise, extensionVars>>

\* addWorkspaceTrustTransitionParticipant(participant)
addWorkspaceTrustTransitionParticipant ==
    /\ participants.count < MaxParticipants
    /\ participants' = LinkedListPush(participants, participants.count + 1)
    /\ UNCHANGED <<env, workspace, remoteAuthority, storage, trustStateInfo, memento, tasks, failure, rs, promise, extensionVars>>

\* the handle addWorkspaceTrustTransitionParticipant returned is disposed
disposeParticipant(n) ==
    /\ n <= participants.count /\ n \notin participants.removed
    /\ participants' = LinkedListRemove(participants, n)
    /\ UNCHANGED <<env, workspace, remoteAuthority, storage, trustStateInfo, memento, tasks, failure, rs, promise, extensionVars>>

\* requestWorkspaceTrust(options), the promise it creates recording created
requestWorkspaceTrustCall(created) ==
    /\ IF rs.trusted
       THEN UNCHANGED <<rs, promise>>
       ELSE IF ~rs.promise
       THEN /\ promise' = [NewPromise(promise) EXCEPT !.initiated = 1, !.created = created]
            /\ rs' = [rs EXCEPT !.promise = TRUE, !.resolver = TRUE]
       ELSE /\ promise' = [promise EXCEPT !.shared = TRUE]
            /\ UNCHANGED rs
    /\ UNCHANGED <<env, workspace, remoteAuthority, storage, trustStateInfo, memento, participants, tasks, failure, extensionVars>>

\* a requestWorkspaceTrust that signals every call
requestWorkspaceTrustSignalsAgain ==
    /\ IF rs.trusted
       THEN UNCHANGED <<rs, promise>>
       ELSE IF ~rs.promise
       THEN /\ promise' = [NewPromise(promise) EXCEPT !.initiated = 1]
            /\ rs' = [rs EXCEPT !.promise = TRUE, !.resolver = TRUE]
       ELSE /\ promise' = [promise EXCEPT !.shared = TRUE, !.initiated = IF @ < 2 THEN @ + 1 ELSE @]
            /\ UNCHANGED rs
    /\ UNCHANGED <<env, workspace, remoteAuthority, storage, trustStateInfo, memento, participants, tasks, failure, extensionVars>>

\* requestWorkspaceTrust(options)
requestWorkspaceTrust == requestWorkspaceTrustCall(NoPromise.created)

\* the same, the new promise recording the trust state and the stored list
requestWorkspaceTrustRecorded == requestWorkspaceTrustCall(TrustAtCreation)

\* a cancelRequest that resolves with false
cancelRequestAsFalse ==
    /\ IF rs.resolver
       THEN /\ promise' = CallResolver(promise, "false", "cancelRequest")
            /\ rs' = [rs EXCEPT !.resolver = FALSE, !.promise = FALSE]
       ELSE UNCHANGED <<rs, promise>>
    /\ UNCHANGED <<env, workspace, remoteAuthority, storage, trustStateInfo, memento, participants, tasks, failure, extensionVars>>

\* cancelRequest()
cancelRequest ==
    /\ IF rs.resolver
       THEN /\ promise' = CallResolver(promise, "undefined", "cancelRequest")
            /\ rs' = [rs EXCEPT !.resolver = FALSE, !.promise = FALSE]
       ELSE UNCHANGED <<rs, promise>>
    /\ UNCHANGED <<env, workspace, remoteAuthority, storage, trustStateInfo, memento, participants, tasks, failure, extensionVars>>

\* a completeRequest that resolves before it awaits setWorkspaceTrust
completeRequestResolvesFirst(trusted) ==
    IF trusted = "undefined" \/ trusted = Opt(rs.trusted)
    THEN /\ rs' = resolveRequest(rs, promise, trusted, "completeRequest").rs
         /\ promise' = resolveRequest(rs, promise, trusted, "completeRequest").promise
         /\ UNCHANGED <<env, workspace, remoteAuthority, storage, trustStateInfo, memento, participants, tasks, failure, extensionVars>>
    ELSE /\ CanStart
         /\ LET r == setWorkspaceTrust(NewTask("complete", trusted), trusted = "true", workspace,
                                       memento, participants, rs.trusted)
                res == resolveRequest(rs, promise, trusted, "setWorkspaceTrust")
            IN /\ Starts(r.task)
               /\ memento' = r.memento
               /\ rs' = [res.rs EXCEPT !.trusted = r.cached]
               /\ promise' = res.promise
         /\ UNCHANGED <<env, workspace, remoteAuthority, storage, trustStateInfo, participants, extensionVars>>

\* completeRequest(trusted), to its return or to its await of setWorkspaceTrust
completeRequest(trusted) ==
    IF trusted = "undefined" \/ trusted = Opt(rs.trusted)
    THEN /\ rs' = resolveRequest(rs, promise, trusted, "completeRequest").rs
         /\ promise' = resolveRequest(rs, promise, trusted, "completeRequest").promise
         /\ UNCHANGED <<env, workspace, remoteAuthority, storage, trustStateInfo, memento, participants, tasks, failure, extensionVars>>
    ELSE /\ CanStart
         /\ LET r == setWorkspaceTrust(NewTask("complete", trusted), trusted = "true", workspace,
                                       memento, participants, rs.trusted)
            IN /\ Starts(r.task)
               /\ memento' = r.memento
               /\ rs' = [rs EXCEPT !.trusted = r.cached]
         /\ UNCHANGED <<env, workspace, remoteAuthority, storage, trustStateInfo, participants, promise, extensionVars>>

\* completeRequest resumes after setWorkspaceTrust: resolveRequest(trusted)
completeResume(t) ==
    /\ t.pc = "resolve"
    /\ Becomes(t, NoTask)
    /\ rs' = resolveRequest(rs, promise, t.arg, "setWorkspaceTrust").rs
    /\ promise' = resolveRequest(rs, promise, t.arg, "setWorkspaceTrust").promise
    /\ UNCHANGED <<env, workspace, remoteAuthority, storage, trustStateInfo, memento, participants, extensionVars>>

Next ==
    \/ initializeWorkspaceTrust
    \/ \E t \in Running : calculateResume(t)
    \/ \E t \in Running : initializeAssign(t)
    \/ \E t \in Running : updateResume(t)
    \/ \E t \in Running : participantResolves(t)
    \/ \E t \in Running : participantRejects(t)
    \/ \E t \in Running : fireDidChangeTrust(t)
    \/ \E trusted \in BOOLEAN : SetWorkspaceTrust(trusted)
    \/ \E t \in Running : setUrisTrust(t)
    \/ addWorkspaceTrustTransitionParticipant
    \/ requestWorkspaceTrust
    \/ cancelRequest
    \/ \E trusted \in {"undefined", "true", "false"} : completeRequest(trusted)
    \/ \E t \in Running : completeResume(t)

Spec == Init /\ [][Next]_vars

\* the same with participants that are removed again
NextParticipants == Next \/ \E n \in Nodes : disposeParticipant(n)

SpecParticipants == Init /\ [][NextParticipants]_vars

\* ------------------------------------- environment and workspace handlers
\* a continuation that fires the startup signal without awaiting updateWorkspaceTrust
resolveAuthoritySignalsFirst(isTrusted) ==
    /\ env.remoteAuthority /\ ~remoteAuthority.resolved /\ ~remoteAuthority.rejected
    /\ CanStart
    /\ remoteAuthority' = [resolved |-> TRUE, isTrusted |-> isTrusted, rejected |-> FALSE]
    /\ Starts([NewTask("remote", "undefined") EXCEPT !.pc = "signal"])
    /\ UNCHANGED <<env, workspace, storage, trustStateInfo, memento, participants, rs, promise, extensionVars>>

\* remoteAuthorityResolverService.resolveAuthority(...) resolves: the constructor's
\* continuation assigns _remoteAuthority and calls updateWorkspaceTrust()
resolveAuthority(isTrusted) ==
    /\ env.remoteAuthority /\ ~remoteAuthority.resolved /\ ~remoteAuthority.rejected
    /\ CanStart
    /\ remoteAuthority' = [resolved |-> TRUE, isTrusted |-> isTrusted, rejected |-> FALSE]
    /\ Starts(calculateWorkspaceTrust(NewTask("remote", "undefined"), env, workspace,
                                      remoteAuthority', memento))
    /\ UNCHANGED <<env, workspace, storage, trustStateInfo, memento, participants, rs, promise, extensionVars>>

\* remoteAuthorityResolverService.resolveAuthority(...) rejects: the continuation given
\* to then() never runs, _remoteAuthority stays undefined
resolveAuthorityRejects ==
    /\ env.remoteAuthority /\ ~remoteAuthority.resolved /\ ~remoteAuthority.rejected
    /\ remoteAuthority' = [remoteAuthority EXCEPT !.rejected = TRUE]
    /\ UNCHANGED <<env, workspace, storage, trustStateInfo, memento, participants, tasks, failure, rs, promise, extensionVars>>

\* the constructor's continuation resumes after updateWorkspaceTrust:
\* _onDidInitiateWorkspaceTrustRequestOnStartup.fire()
startupRequest(t) ==
    /\ t.pc = "signal"
    /\ Becomes(t, NoTask)
    /\ UNCHANGED <<env, workspace, remoteAuthority, storage, trustStateInfo, memento, participants, rs, promise, extensionVars>>

\* the listener of workspaceService.onDidChangeWorkspaceFolders, the folders being ws2's
onDidChangeWorkspaceFolders(ws2) ==
    /\ workspace.kind = "WORKSPACE" /\ ws2.kind = "WORKSPACE" /\ ws2 # workspace
    /\ CanStart
    /\ workspace' = ws2
    /\ Starts(calculateWorkspaceTrust(NewTask("event", "undefined"), env, ws2, remoteAuthority, memento))
    /\ UNCHANGED <<env, remoteAuthority, storage, trustStateInfo, memento, participants, rs, promise, extensionVars>>

\* a listener of onDidChangeWorkbenchState that calculates the trust of every window
\* from the list of trusted folders
onDidChangeWorkbenchStateByFolders(ws2) ==
    /\ ws2.kind # workspace.kind
    /\ CanStart
    /\ workspace' = ws2
    /\ Starts([NewTask("event", "undefined") EXCEPT !.pc = "calcUris", !.uris = ws2.folders])
    /\ UNCHANGED <<env, remoteAuthority, storage, trustStateInfo, memento, participants, rs, promise, extensionVars>>

\* the listener of workspaceService.onDidChangeWorkbenchState, the workspace being ws2
onDidChangeWorkbenchState(ws2) ==
    /\ ws2.kind # workspace.kind
    /\ CanStart
    /\ workspace' = ws2
    /\ Starts(calculateWorkspaceTrust(NewTask("event", "undefined"), env, ws2, remoteAuthority, memento))
    /\ UNCHANGED <<env, remoteAuthority, storage, trustStateInfo, memento, participants, rs, promise, extensionVars>>

\* a setUrisTrust that saves whether or not the list changed
SetUrisTrustAlwaysSaves(uris, trusted) ==
    /\ CanStart
    /\ LET r == SetUrisTrustLoop(uris, trusted, 1,
                                 [list |-> trustStateInfo.uriTrustInfo, changed |-> FALSE])
       IN IF Len(uris) > 0 /\ ~trustStateInfo.defined
          THEN /\ failure' = Rejected(NewTask("uris", Opt(trusted)), "uninit")
               /\ UNCHANGED <<storage, trustStateInfo, tasks>>
          ELSE /\ trustStateInfo' = [trustStateInfo EXCEPT !.uriTrustInfo = r.list]
               /\ storage' = Stringify(r.list)
               /\ Starts(calculateWorkspaceTrust([NewTask("uris", Opt(trusted)) EXCEPT !.saved = TRUE],
                                                 env, workspace, remoteAuthority, memento))
    /\ UNCHANGED <<env, workspace, remoteAuthority, memento, participants, rs, promise, extensionVars>>

\* setUrisTrust(uris, trusted) called by the host, to its return or to the await
\* inside saveTrustInfo
SetUrisTrust(uris, trusted) ==
    /\ CanStart
    /\ LET r == SetUrisTrustLoop(uris, trusted, 1,
                                 [list |-> trustStateInfo.uriTrustInfo, changed |-> FALSE])
       IN IF Len(uris) > 0 /\ ~trustStateInfo.defined
          THEN /\ failure' = Rejected(NewTask("uris", Opt(trusted)), "uninit")
               /\ UNCHANGED <<storage, trustStateInfo, tasks>>
          ELSE IF r.changed
          THEN /\ trustStateInfo' = [trustStateInfo EXCEPT !.uriTrustInfo = r.list]
               /\ storage' = Stringify(r.list)
               /\ Starts(calculateWorkspaceTrust([NewTask("uris", Opt(trusted)) EXCEPT !.saved = TRUE],
                                                 env, workspace, remoteAuthority, memento))
          ELSE UNCHANGED <<storage, trustStateInfo, tasks, failure>>
    /\ UNCHANGED <<env, workspace, remoteAuthority, memento, participants, rs, promise, extensionVars>>

\* a setTrustedFolders whose saveTrustInfo fires and updates without storing the list
setTrustedFoldersWithoutStore(uris) ==
    /\ CanStart
    /\ IF ~trustStateInfo.defined
       THEN /\ failure' = Rejected(NewTask("folders", "undefined"), "uninit")
            /\ UNCHANGED <<storage, trustStateInfo, tasks>>
       ELSE LET list == SetTrustedFoldersLoop(uris, 1, <<>>)
            IN /\ trustStateInfo' = [trustStateInfo EXCEPT !.uriTrustInfo = list]
               /\ UNCHANGED storage
               /\ Starts(calculateWorkspaceTrust([NewTask("folders", "undefined") EXCEPT !.saved = TRUE],
                                                 env, workspace, remoteAuthority, memento))
    /\ UNCHANGED <<env, workspace, remoteAuthority, memento, participants, rs, promise, extensionVars>>

\* setTrustedFolders(uris), to the await inside saveTrustInfo
setTrustedFolders(uris) ==
    /\ CanStart
    /\ IF ~trustStateInfo.defined
       THEN /\ failure' = Rejected(NewTask("folders", "undefined"), "uninit")
            /\ UNCHANGED <<storage, trustStateInfo, tasks>>
       ELSE LET list == SetTrustedFoldersLoop(uris, 1, <<>>)
            IN /\ trustStateInfo' = [trustStateInfo EXCEPT !.uriTrustInfo = list]
               /\ storage' = Stringify(list)
               /\ Starts(calculateWorkspaceTrust([NewTask("folders", "undefined") EXCEPT !.saved = TRUE],
                                                 env, workspace, remoteAuthority, memento))
    /\ UNCHANGED <<env, workspace, remoteAuthority, memento, participants, rs, promise, extensionVars>>

\* another window stored the value stored2; the listener of storageService.onDidChangeValue
onDidChangeValue(stored2) ==
    /\ stored2 # storage
    /\ CanStart
    /\ storage' = stored2
    /\ LET r == didChangeValueListener(storageKey, stored2, trustStateInfo)
       IN /\ trustStateInfo' = r.info
          /\ IF r.do = "reload"
             THEN Starts(calculateWorkspaceTrust(NewTask("storage", "undefined"), env, workspace,
                                                 remoteAuthority, memento))
             ELSE IF r.do = "throws"
             THEN /\ failure' = Rejected(NewTask("storage", "undefined"), "load")
                  /\ UNCHANGED tasks
             ELSE UNCHANGED <<tasks, failure>>
    /\ UNCHANGED <<env, workspace, remoteAuthority, memento, participants, rs, promise, extensionVars>>

\* a value is stored under key by another window (stored2, under the key of the trusted
\* folders), and the storage service queues its change event for this window
storeInOtherWindow(key, stored2) ==
    /\ Posted < MaxNotifications
    /\ storage' = IF key = storageKey THEN stored2 ELSE storage
    /\ tasks' = tasks (+) SetToBag({[NewTask("notify", key) EXCEPT !.pc = "posted"]})
    /\ UNCHANGED <<env, workspace, remoteAuthority, trustStateInfo, memento, participants, failure, rs, promise, extensionVars>>

\* a listener that reloads the list and fires onDidChangeTrustedFolders, but does not
\* call updateWorkspaceTrust
onDidChangeValueDeliveredWithoutUpdate(t) ==
    /\ t.pc = "posted"
    /\ Started(tasks) <= MaxTasks
    /\ MicrotasksDrained
    /\ LET r == didChangeValueListener(t.arg, storage, trustStateInfo)
       IN /\ trustStateInfo' = r.info
          /\ Becomes(t, IF r.do = "throws" THEN Rejected(t, "load") ELSE NoTask)
    /\ UNCHANGED <<env, workspace, remoteAuthority, storage, memento, participants, rs, promise, extensionVars>>

\* a queued change event is delivered: the listener of storageService.onDidChangeValue
\* runs, with the value that is stored now; it runs whatever is in flight (here: next to
\* at most MaxTasks operations)
onDidChangeValueDelivered(t) ==
    /\ t.pc = "posted"
    /\ Started(tasks) <= MaxTasks
    /\ MicrotasksDrained
    /\ LET r == didChangeValueListener(t.arg, storage, trustStateInfo)
       IN /\ trustStateInfo' = r.info
          /\ Becomes(t, IF r.do = "reload"
                        THEN calculateWorkspaceTrust(NewTask("storage", "undefined"), env, workspace,
                                                     remoteAuthority, memento)
                        ELSE IF r.do = "throws"
                        THEN Rejected(t, "load")
                        ELSE NoTask)
    /\ UNCHANGED <<env, workspace, remoteAuthority, storage, memento, participants, rs, promise, extensionVars>>

\* requestOpenUris(uris) called by the host, to its return or to the dialog
RequestOpenUris(uris) ==
    /\ Dialogs < MaxDialogs
    /\ LET d == requestOpenUris(rs.trusted, trustStateInfo, uris, rs.untrustedFilesSetting,
                                acceptsOutOfWorkspaceFiles)
       IN IF d = "dialog"
          THEN /\ Starts([NewTask("open", "undefined") EXCEPT !.pc = "dialog", !.uris = uris])
               /\ UNCHANGED rs
          ELSE IF d = "throws"
          THEN /\ failure' = Rejected(NewTask("open", "undefined"), "uninit")
               /\ UNCHANGED <<tasks, rs>>
          ELSE /\ rs' = [rs EXCEPT !.response = d, !.request = uris, !.asked = FALSE]
               /\ failure' = NoTask
               /\ UNCHANGED tasks
    /\ UNCHANGED <<env, workspace, remoteAuthority, storage, trustStateInfo, memento, participants, promise, extensionVars>>

\* the user answers the dialog of t: choice 0 Open, 1 Open in Restricted Mode, 2 Cancel
dialogShowResolves(t, choice, checked) ==
    /\ t.pc = "dialog"
    /\ MicrotasksDrained
    /\ LET r == dialogResult(memento, rs, t.uris, choice, checked)
       IN /\ memento' = r.memento
          /\ rs' = r.rs
    /\ Becomes(t, NoTask)
    /\ UNCHANGED <<env, workspace, remoteAuthority, storage, trustStateInfo, participants, promise, extensionVars>>

\* ------------------------------------------- the trust calculation's inputs
EnvAll ==
    [isWeb : BOOLEAN, userValue : {"undefined", "false"}, defaultValue : {"true"},
     extensionTestsLocationURI : BOOLEAN, remoteAuthority : BOOLEAN]

WorkspaceAll == {EmptyWindow, SingleFolder, UntitledWorkspace, MultiRoot, SavedWorkspace, VirtualFolder}

StoredAll ==
    {[json |-> "absent", uriTrustInfo |-> <<>>],
     [json |-> "corrupt", uriTrustInfo |-> <<>>],
     Stringify(<<[uri |-> UriAB, trusted |-> TRUE]>>),
     Stringify(<<[uri |-> UriA, trusted |-> TRUE], [uri |-> UriAB, trusted |-> TRUE]>>),
     Stringify(<<[uri |-> UriA, trusted |-> TRUE], [uri |-> UriC, trusted |-> TRUE]>>),
     Stringify(<<[uri |-> UriAB, trusted |-> FALSE], [uri |-> UriV, trusted |-> TRUE]>>)}

InitCalculate ==
    /\ env \in EnvAll
    /\ workspace \in WorkspaceAll
    /\ remoteAuthority = [resolved |-> FALSE, isTrusted |-> "undefined", rejected |-> FALSE]
    /\ storage \in StoredAll
    /\ trustStateInfo = [defined |-> FALSE, uriTrustInfo |-> <<>>]
    /\ memento \in MementoChoices
    /\ participants = EmptyList
    /\ tasks = EmptyBag
    /\ failure = NoTask
    /\ rs = [trusted |-> IsTrustedOf(memento), promise |-> FALSE, resolver |-> FALSE,
             untrustedFilesSetting |-> "prompt", response |-> "none", request |-> <<>>,
             asked |-> FALSE, remembered |-> FALSE]
    /\ promise = NoPromise
    /\ ExtensionsIdle

NextCalculate ==
    \/ initializeWorkspaceTrust
    \/ \E t \in Running : calculateResume(t)
    \/ \E t \in Running : initializeAssign(t)
    \/ \E t \in Running : updateResume(t)
    \/ \E t \in Running : fireDidChangeTrust(t)
    \/ \E isTrusted \in {"undefined", "true", "false"} : resolveAuthority(isTrusted)
    \/ \E t \in Running : startupRequest(t)
    \/ \E ws2 \in WorkspaceAll : onDidChangeWorkspaceFolders(ws2)
    \/ \E ws2 \in WorkspaceAll : onDidChangeWorkbenchState(ws2)

SpecCalculate == InitCalculate /\ [][NextCalculate]_vars

\* ------------------------------------------- the list of trusted folders
\* the stored values: none, lists, a list with a negative entry, one with a duplicate
StoredLists ==
    {[json |-> "absent", uriTrustInfo |-> <<>>],
     [json |-> "nolist", uriTrustInfo |-> <<>>],
     Stringify(<<[uri |-> UriA, trusted |-> TRUE]>>),
     Stringify(<<[uri |-> UriAB, trusted |-> TRUE], [uri |-> UriA, trusted |-> TRUE]>>),
     Stringify(<<[uri |-> UriA, trusted |-> FALSE], [uri |-> UriC, trusted |-> TRUE]>>),
     Stringify(<<[uri |-> UriAB, trusted |-> TRUE], [uri |-> UriAB, trusted |-> TRUE]>>)}

\* the arguments of setUrisTrust
UrisChoices == {<<UriA>>, <<UriAB>>, <<UriC>>, <<UriA, UriAB>>, <<UriAB, UriAB>>}

\* the arguments of setTrustedFolders
FoldersChoices == {<<>>, <<UriASlash, UriA>>, <<UriAB, UriC>>}

InitFolders ==
    /\ env \in EnvChoices
    /\ workspace \in {SingleFolder, SavedWorkspace}
    /\ remoteAuthority = [resolved |-> FALSE, isTrusted |-> "undefined", rejected |-> FALSE]
    /\ storage \in StoredLists
    /\ trustStateInfo = [defined |-> FALSE, uriTrustInfo |-> <<>>]
    /\ memento \in MementoChoices
    /\ participants = EmptyList
    /\ tasks = EmptyBag
    /\ failure = NoTask
    /\ rs = [trusted |-> IsTrustedOf(memento), promise |-> FALSE, resolver |-> FALSE,
             untrustedFilesSetting |-> "prompt", response |-> "none", request |-> <<>>,
             asked |-> FALSE, remembered |-> FALSE]
    /\ promise = NoPromise
    /\ ExtensionsIdle

NextFolders ==
    \/ initializeWorkspaceTrust
    \/ \E t \in Running : calculateResume(t)
    \/ \E t \in Running : initializeAssign(t)
    \/ \E t \in Running : updateResume(t)
    \/ \E t \in Running : fireDidChangeTrust(t)
    \/ \E uris \in UrisChoices, trusted \in BOOLEAN : SetUrisTrust(uris, trusted)
    \/ \E uris \in FoldersChoices : setTrustedFolders(uris)
    \/ \E stored2 \in StoredLists : onDidChangeValue(stored2)

SpecFolders == InitFolders /\ [][NextFolders]_vars

\* ------------------------------------------------------ a remote window
\* a remote authority, the trust feature enabled, not a test host
EnvRemote ==
    {[isWeb |-> FALSE, userValue |-> "undefined", defaultValue |-> "true",
      extensionTestsLocationURI |-> FALSE, remoteAuthority |-> TRUE]}

InitRemote ==
    /\ env \in EnvRemote
    /\ workspace \in WorkspaceChoices
    /\ remoteAuthority = [resolved |-> FALSE, isTrusted |-> "undefined", rejected |-> FALSE]
    /\ storage \in StoredChoices
    /\ trustStateInfo = [defined |-> FALSE, uriTrustInfo |-> <<>>]
    /\ memento \in MementoChoices
    /\ participants = EmptyList
    /\ tasks = EmptyBag
    /\ failure = NoTask
    /\ rs = [trusted |-> IsTrustedOf(memento), promise |-> FALSE, resolver |-> FALSE,
             untrustedFilesSetting |-> "prompt", response |-> "none", request |-> <<>>,
             asked |-> FALSE, remembered |-> FALSE]
    /\ promise = NoPromise
    /\ ExtensionsIdle

NextRemote ==
    \/ initializeWorkspaceTrust
    \/ \E t \in Running : initializeAssign(t)
    \/ \E t \in Running : updateResume(t)
    \/ \E t \in Running : participantResolves(t)
    \/ \E t \in Running : participantRejects(t)
    \/ \E t \in Running : fireDidChangeTrust(t)
    \/ \E trusted \in BOOLEAN : SetWorkspaceTrust(trusted)
    \/ \E t \in Running : setUrisTrust(t)
    \/ addWorkspaceTrustTransitionParticipant
    \/ \E isTrusted \in {"undefined", "true", "false"} : resolveAuthority(isTrusted)
    \/ resolveAuthorityRejects
    \/ \E t \in Running : startupRequest(t)
    \/ \E ws2 \in WorkspaceChoices : onDidChangeWorkbenchState(ws2)

SpecRemote == InitRemote /\ [][NextRemote]_vars

\* ------------------------------------- a window that shares the storage
\* the value the window finds stored when it starts
StoredAtStart ==
    {[json |-> "absent", uriTrustInfo |-> <<>>],
     Stringify(<<[uri |-> UriAB, trusted |-> TRUE]>>),
     Stringify(<<[uri |-> UriA, trusted |-> FALSE], [uri |-> UriAB, trusted |-> TRUE]>>)}

\* what another window stores: the serialization of its own list of trusted folders
StoredByOtherWindow ==
    {Stringify(<<>>),
     Stringify(<<[uri |-> UriAB, trusted |-> TRUE]>>),
     Stringify(<<[uri |-> UriC, trusted |-> TRUE]>>)}

InitStorage ==
    /\ env \in EnvChoices
    /\ workspace \in WorkspaceChoices
    /\ remoteAuthority = [resolved |-> FALSE, isTrusted |-> "undefined", rejected |-> FALSE]
    /\ storage \in StoredAtStart
    /\ trustStateInfo = [defined |-> FALSE, uriTrustInfo |-> <<>>]
    /\ memento \in MementoChoices
    \* one participant is registered, as the extension host does at startup
    /\ participants = LinkedListPush(EmptyList, 1)
    /\ tasks = EmptyBag
    /\ failure = NoTask
    /\ rs = [trusted |-> IsTrustedOf(memento), promise |-> FALSE, resolver |-> FALSE,
             untrustedFilesSetting |-> "prompt", response |-> "none", request |-> <<>>,
             asked |-> FALSE, remembered |-> FALSE]
    /\ promise = NoPromise
    /\ ExtensionsIdle

\* The calls of the host and the events of the storage service are tasks of the event
\* loop: one starts when no continuation of an operation in flight is queued.
NextStorage ==
    \/ MicrotasksDrained /\ initializeWorkspaceTrust
    \/ \E t \in Running : calculateResume(t)
    \/ \E t \in Running : initializeAssign(t)
    \/ \E t \in Running : updateResume(t)
    \/ \E t \in Running : participantResolves(t)
    \/ \E t \in Running : participantRejects(t)
    \/ \E t \in Running : fireDidChangeTrust(t)
    \/ MicrotasksDrained /\ \E trusted \in BOOLEAN : SetWorkspaceTrust(trusted)
    \/ \E t \in Running : setUrisTrust(t)
    \/ MicrotasksDrained /\ \E trusted \in BOOLEAN : SetUrisTrust(<<UriAB>>, trusted)
    \/ MicrotasksDrained /\ setTrustedFolders(<<UriA>>)
    \/ \E key \in {storageKey, "other.key"}, stored2 \in StoredByOtherWindow : storeInOtherWindow(key, stored2)
    \/ \E t \in Running : onDidChangeValueDelivered(t)

SpecStorage == InitStorage /\ [][NextStorage]_vars

\* ------------------------------------------------- opening files
SettingChoices == {"prompt", "open", "newWindow"}

\* what the host asks to open: nothing, the trusted folder, a file of an untrusted
\* folder, both
OpenChoices == {<<>>, <<UriAB>>, <<UriC>>, <<UriAB, UriC>>}

InitOpenUris ==
    /\ env \in EnvChoices
    /\ workspace = SingleFolder
    /\ remoteAuthority = [resolved |-> FALSE, isTrusted |-> "undefined", rejected |-> FALSE]
    /\ storage \in StoredChoices
    /\ trustStateInfo = [defined |-> FALSE, uriTrustInfo |-> <<>>]
    /\ memento \in MementoChoices
    /\ participants = EmptyList
    /\ tasks = EmptyBag
    /\ failure = NoTask
    /\ \E setting \in SettingChoices :
          rs = [trusted |-> IsTrustedOf(memento), promise |-> FALSE, resolver |-> FALSE,
                untrustedFilesSetting |-> setting, response |-> "none", request |-> <<>>,
                asked |-> FALSE, remembered |-> FALSE]
    /\ promise = NoPromise
    /\ ExtensionsIdle

NextOpenUris ==
    \/ MicrotasksDrained /\ initializeWorkspaceTrust
    \/ \E t \in Running : calculateResume(t)
    \/ \E t \in Running : initializeAssign(t)
    \/ \E t \in Running : updateResume(t)
    \/ \E t \in Running : fireDidChangeTrust(t)
    \/ \E t \in Running : setUrisTrust(t)
    \/ MicrotasksDrained /\ \E trusted \in BOOLEAN : SetWorkspaceTrust(trusted)
    \/ MicrotasksDrained /\ \E uris \in OpenChoices : RequestOpenUris(uris)
    \/ \E t \in Running, choice \in 0..2, checked \in BOOLEAN : dialogShowResolves(t, choice, checked)

SpecOpenUris == InitOpenUris /\ [][NextOpenUris]_vars

\* ------------------------------------------- the transition participants
\* an empty window, where setWorkspaceTrust goes straight to updateWorkspaceTrust
InitTransitions == Init /\ workspace = EmptyWindow

NextTransitions ==
    \/ \E trusted \in BOOLEAN : SetWorkspaceTrust(trusted)
    \/ \E t \in Running : participantResolves(t)
    \/ \E t \in Running : participantRejects(t)
    \/ \E t \in Running : fireDidChangeTrust(t)
    \/ addWorkspaceTrustTransitionParticipant
    \/ \E n \in Nodes : disposeParticipant(n)

SpecTransitions == InitTransitions /\ [][NextTransitions]_vars

\* ------------------------------------------------- what may be stored
\* stored values of every kind: none, no JSON, JSON without the list, JSON that is no
\* object, an object whose uriTrustInfo is no array, and a list
StoredKinds ==
    {[json |-> "absent", uriTrustInfo |-> <<>>],
     [json |-> "corrupt", uriTrustInfo |-> <<>>],
     [json |-> "nolist", uriTrustInfo |-> <<>>],
     [json |-> "primitive", uriTrustInfo |-> <<>>],
     [json |-> "notarray", uriTrustInfo |-> <<>>],
     Stringify(<<[uri |-> UriAB, trusted |-> TRUE]>>)}

InitLoad ==
    /\ env \in EnvChoices
    /\ workspace \in WorkspaceChoices
    /\ remoteAuthority = [resolved |-> FALSE, isTrusted |-> "undefined", rejected |-> FALSE]
    /\ storage \in StoredKinds
    /\ trustStateInfo = [defined |-> FALSE, uriTrustInfo |-> <<>>]
    /\ memento \in MementoChoices
    /\ participants = EmptyList
    /\ tasks = EmptyBag
    /\ failure = NoTask
    /\ rs = [trusted |-> IsTrustedOf(memento), promise |-> FALSE, resolver |-> FALSE,
             untrustedFilesSetting |-> "prompt", response |-> "none", request |-> <<>>,
             asked |-> FALSE, remembered |-> FALSE]
    /\ promise = NoPromise
    /\ ExtensionsIdle

NextLoad ==
    \/ initializeWorkspaceTrust
    \/ \E t \in Running : calculateResume(t)
    \/ \E t \in Running : initializeAssign(t)
    \/ \E t \in Running : updateResume(t)
    \/ \E t \in Running : fireDidChangeTrust(t)
    \/ \E stored2 \in StoredKinds : onDidChangeValue(stored2)

SpecLoad == InitLoad /\ [][NextLoad]_vars

\* ------------------------------------------- every kind of workspace
\* a local and a remote window, the trust feature enabled
EnvKinds == EnvChoices \cup EnvRemote

WorkspaceKinds == {EmptyWindow, SingleFolder, MultiRoot}

\* nothing stored, the folder trusted, its parent trusted
StoredParents ==
    {[json |-> "absent", uriTrustInfo |-> <<>>],
     Stringify(<<[uri |-> UriAB, trusted |-> TRUE]>>),
     Stringify(<<[uri |-> UriA, trusted |-> TRUE]>>)}

InitKinds ==
    /\ env \in EnvKinds
    /\ workspace \in WorkspaceKinds
    /\ remoteAuthority = [resolved |-> FALSE, isTrusted |-> "undefined", rejected |-> FALSE]
    /\ storage \in StoredParents
    /\ trustStateInfo = [defined |-> FALSE, uriTrustInfo |-> <<>>]
    /\ memento \in MementoChoices
    /\ participants = EmptyList
    /\ tasks = EmptyBag
    /\ failure = NoTask
    /\ rs = [trusted |-> IsTrustedOf(memento), promise |-> FALSE, resolver |-> FALSE,
             untrustedFilesSetting |-> "prompt", response |-> "none", request |-> <<>>,
             asked |-> FALSE, remembered |-> FALSE]
    /\ promise = NoPromise
    /\ ExtensionsIdle

NextKinds ==
    \/ initializeWorkspaceTrust
    \/ \E t \in Running : calculateResume(t)
    \/ \E t \in Running : initializeAssign(t)
    \/ \E t \in Running : updateResume(t)
    \/ \E t \in Running : fireDidChangeTrust(t)
    \/ \E trusted \in BOOLEAN : SetWorkspaceTrustRecorded(trusted)
    \/ \E t \in Running : setUrisTrust(t)
    \/ \E isTrusted \in {"undefined", "true", "false"} : resolveAuthority(isTrusted)
    \/ \E t \in Running : startupRequest(t)
    \/ requestWorkspaceTrust
    \/ cancelRequest
    \/ \E trusted \in {"undefined", "true", "false"} : completeRequest(trusted)
    \/ \E t \in Running : completeResume(t)

SpecKinds == InitKinds /\ [][NextKinds]_vars

\* ------------------------------------------- the events of a local window
\* the workspaces the window may turn into
EventWorkspaces == {EmptyWindow, SingleFolder, UntitledWorkspace, MultiRoot}

\* A local window with one participant registered.  The host's calls and the events of
\* the workspace and storage services are tasks of the event loop: one starts when no
\* continuation of an operation in flight is queued.
NextEvents ==
    \/ MicrotasksDrained /\ initializeWorkspaceTrust
    \/ \E t \in Running : calculateResume(t)
    \/ \E t \in Running : initializeAssign(t)
    \/ \E t \in Running : updateResume(t)
    \/ \E t \in Running : participantResolves(t)
    \/ \E t \in Running : participantRejects(t)
    \/ \E t \in Running : fireDidChangeTrust(t)
    \/ MicrotasksDrained /\ \E trusted \in BOOLEAN : SetWorkspaceTrust(trusted)
    \/ \E t \in Running : setUrisTrust(t)
    \/ \E stored2 \in StoredByOtherWindow : storeInOtherWindow(storageKey, stored2)
    \/ \E t \in Running : onDidChangeValueDelivered(t)
    \/ MicrotasksDrained /\ \E ws2 \in EventWorkspaces : onDidChangeWorkspaceFolders(ws2)
    \/ MicrotasksDrained /\ \E ws2 \in EventWorkspaces : onDidChangeWorkbenchState(ws2)

SpecEvents == InitStorage /\ [][NextEvents]_vars

\* ------------------------------------------------- the event loop is fair
\* a continuation that is queued is run by the event loop
Continuation ==
    \E t \in Running :
        \/ calculateResume(t) \/ initializeAssign(t) \/ updateResume(t)
        \/ fireDidChangeTrust(t) \/ setUrisTrust(t) \/ completeResume(t)

\* the promise of a participant that is awaited settles
ParticipantSettles == \E t \in Running : participantResolves(t) \/ participantRejects(t)

\* initializeWorkspaceTrust has run to its end
Initialized == trustStateInfo.defined /\ \A t \in Running : t.op # "init"

\* a window with one participant registered, as the extension host does at startup
InitRequest ==
    /\ env \in EnvChoices
    /\ workspace \in WorkspaceChoices
    /\ remoteAuthority = [resolved |-> FALSE, isTrusted |-> "undefined", rejected |-> FALSE]
    /\ storage \in StoredChoices
    /\ trustStateInfo = [defined |-> FALSE, uriTrustInfo |-> <<>>]
    /\ memento \in MementoChoices
    /\ participants = LinkedListPush(EmptyList, 1)
    /\ tasks = EmptyBag
    /\ failure = NoTask
    /\ rs = [trusted |-> IsTrustedOf(memento), promise |-> FALSE, resolver |-> FALSE,
             untrustedFilesSetting |-> "prompt", response |-> "none", request |-> <<>>,
             asked |-> FALSE, remembered |-> FALSE]
    /\ promise = NoPromise
    /\ ExtensionsIdle

\* The trust request of an initialised window, with nothing else changing the trust:
\* the window is initialised, requestWorkspaceTrust is called, and the handler of
\* onDidInitiateWorkspaceTrustRequest answers the request that is pending with
\* completeRequest or cancelRequest, each a task of the event loop.
NextRequest ==
    \/ initializeWorkspaceTrust
    \/ \E t \in Running : calculateResume(t)
    \/ \E t \in Running : initializeAssign(t)
    \/ \E t \in Running : updateResume(t)
    \/ \E t \in Running : participantResolves(t)
    \/ \E t \in Running : participantRejects(t)
    \/ \E t \in Running : fireDidChangeTrust(t)
    \/ \E t \in Running : setUrisTrust(t)
    \/ Initialized /\ MicrotasksDrained /\ requestWorkspaceTrustRecorded
    \/ rs.resolver /\ MicrotasksDrained /\ cancelRequest
    \/ rs.resolver /\ MicrotasksDrained
          /\ \E trusted \in {"undefined", "true", "false"} : completeRequest(trusted)
    \/ \E t \in Running : completeResume(t)

SpecRequest == InitRequest /\ [][NextRequest]_vars

\* the same with every queued continuation run and every awaited participant settling;
\* the host's calls stay as they come
SpecRequestFair ==
    InitRequest /\ [][NextRequest]_vars /\ WF_vars(Continuation) /\ WF_vars(ParticipantSettles)


\* ----------------------------------------------- the extension services
\* the workspace trust services of a window that is left alone
TrustIdle ==
    /\ env \in EnvChoices
    /\ workspace = EmptyWindow
    /\ remoteAuthority = [resolved |-> FALSE, isTrusted |-> "undefined", rejected |-> FALSE]
    /\ storage = [json |-> "absent", uriTrustInfo |-> <<>>]
    /\ trustStateInfo = [defined |-> FALSE, uriTrustInfo |-> <<>>]
    /\ memento = [isTrusted |-> "undefined", acceptsOutOfWorkspaceFiles |-> "undefined"]
    /\ participants = EmptyList
    /\ tasks = EmptyBag
    /\ failure = NoTask
    /\ rs = [trusted |-> FALSE, promise |-> FALSE, resolver |-> FALSE,
             untrustedFilesSetting |-> "prompt", response |-> "none", request |-> <<>>,
             asked |-> FALSE, remembered |-> FALSE]
    /\ promise = NoPromise

\* the cache file a window finds: none, or the result of a scan that logged no error
InitScan ==
    /\ TrustIdle
    /\ extensionFeature = NoFeatureState
    /\ extensionScan \in {[NoScan EXCEPT !.cache = c] : c \in {"absent", "match", "stale"}}

\* _scanExtensionsWithCache is called
ScanExtensionsWithCache(devMode) ==
    /\ extensionScan.pc \in {"idle", "returned"}
    /\ extensionScan' = scanExtensionsWithCache(extensionScan, devMode)
    /\ UNCHANGED <<trustVars, extensionFeature>>

\* the scan reports an error: log.error(source, message)
logError ==
    /\ extensionScan.pc = "scanning"
    /\ extensionScan.errors + extensionScan.warns + extensionScan.infos < MaxMessages
    /\ extensionScan' =
          [extensionScan EXCEPT !.errors = @ + 1,
              !.counterLogger = IF extensionScan.counting THEN CounterLoggerError(@) ELSE @]
    /\ UNCHANGED <<trustVars, extensionFeature>>

\* the scan reports a warning: log.warn(source, message)
logWarn ==
    /\ extensionScan.pc = "scanning"
    /\ extensionScan.errors + extensionScan.warns + extensionScan.infos < MaxMessages
    /\ extensionScan' =
          [extensionScan EXCEPT !.warns = @ + 1,
              !.counterLogger = IF extensionScan.counting THEN CounterLoggerWarn(@) ELSE @]
    /\ UNCHANGED <<trustVars, extensionFeature>>

\* the scan reports an information: log.info(source, message)
logInfo ==
    /\ extensionScan.pc = "scanning"
    /\ extensionScan.errors + extensionScan.warns + extensionScan.infos < MaxMessages
    /\ extensionScan' =
          [extensionScan EXCEPT !.infos = @ + 1,
              !.counterLogger = IF extensionScan.counting THEN CounterLoggerInfo(@) ELSE @]
    /\ UNCHANGED <<trustVars, extensionFeature>>

\* ExtensionScanner.scanExtensions resolves, and _scanExtensionsWithCache runs to its end
ScanExtensionsReturns(wrote) ==
    /\ extensionScan.pc = "scanning"
    /\ extensionScan' = scanExtensionsReturns(extensionScan, wrote)
    /\ UNCHANGED <<trustVars, extensionFeature>>

\* the timer set with the cached result fires: _validateExtensionsCache
ValidateExtensionsCache(equal) ==
    /\ extensionScan.validating
    /\ extensionScan.pc # "scanning"
    /\ extensionScan' = validateExtensionsCache(extensionScan, equal)
    /\ UNCHANGED <<trustVars, extensionFeature>>

\* the folder of the extensions is modified: its mtime is no more that of the cache
extensionsFolderChanges ==
    /\ extensionScan.pc # "scanning" /\ extensionScan.cache = "match"
    /\ extensionScan' = [extensionScan EXCEPT !.cache = "stale"]
    /\ UNCHANGED <<trustVars, extensionFeature>>

NextScan ==
    \/ \E devMode \in BOOLEAN : ScanExtensionsWithCache(devMode)
    \/ logError
    \/ logWarn
    \/ logInfo
    \/ \E wrote \in BOOLEAN : ScanExtensionsReturns(wrote)
    \/ \E equal \in BOOLEAN : ValidateExtensionsCache(equal)
    \/ extensionsFolderChanges

SpecScan == InitScan /\ [][NextScan]_vars

\* a feature that asks for the user's consent or not, nothing decided for the extension
InitFeatures ==
    /\ TrustIdle
    /\ extensionScan = NoScan
    /\ extensionFeature \in {[NoFeatureState EXCEPT !.requireUserConsent = c] : c \in BOOLEAN}

\* the extension calls getAccess
GetAccess ==
    /\ extensionFeature.calls < MaxAccess
    /\ extensionFeature' = getAccess(extensionFeature)
    /\ UNCHANGED <<trustVars, extensionScan>>

\* a consent dialog is answered
confirmResolves(confirmed) ==
    /\ extensionFeature.confirming > 0
    /\ extensionFeature' = getAccessConfirmed(extensionFeature, confirmed)
    /\ UNCHANGED <<trustVars, extensionScan>>

\* the user sets the enablement in the features view
SetEnablement(enabled) ==
    /\ extensionFeature' = setEnablement(extensionFeature, enabled)
    /\ UNCHANGED <<trustVars, extensionScan>>

NextFeatures ==
    \/ GetAccess
    \/ \E confirmed \in BOOLEAN : confirmResolves(confirmed)
    \/ \E enabled \in BOOLEAN : SetEnablement(enabled)

SpecFeatures == InitFeatures /\ [][NextFeatures]_vars

\* ------------------------------------------------------------------ claims
\* the operations of the bag b that are suspended inside participate
AtParticipants(b) == LET S == {t \in BagToSet(b) : t.pc = "part"} IN BagCardinality([t \in S |-> b[t]])

\* C1: when the first of two registered participants fails, the transition stops
\* there: the operation rejects, the second participant is never invoked for it, and
\* onDidChangeTrust is not fired for it (its listener's cached value stays).
C1_FailureStopsTransition ==
    [][\A t \in Running : participantRejects(t) =>
          /\ tasks' = tasks (-) SetToBag({t})
          /\ failure'.err = "participant" /\ failure'.node = t.node
          /\ failure'.skipped = participants.next[t.node]
          /\ ~failure'.fired
          /\ rs' = rs]_vars

\* the first of two participants failed: the second was skipped, no event was fired
C1_Witness ==
    /\ failure.err = "participant" /\ failure.node = participants.first
    /\ failure.skipped # 0
    /\ Running = {}
    /\ rs.trusted # isWorkpaceTrusted

\* C2: onDidChangeTrust is fired for a transition only after every registered
\* participant has completed for it: an operation that has fired is past participate,
\* the event fires from the await after participate only, and participate ends only
\* at the last registered participant.
C2_EventAfterParticipants ==
    [][/\ \A t \in Running' : t.fired => t.pc \in {"resolve", "signal"}
       /\ \A t \in Running : fireDidChangeTrust(t) => t.pc = "fire" /\ ~t.fired
       /\ \A t \in Running :
            t.pc = "part"
            /\ tasks' = (tasks (-) SetToBag({t})) (+) SetToBag({[t EXCEPT !.pc = "fire", !.node = 0]})
                => participants.next[t.node] = 0]_vars

\* a transition fired its event with two participants registered
C2_Witness ==
    \E t \in Running :
        /\ t.pc = "resolve" /\ t.fired
        /\ participants.count >= 2
        /\ rs.trusted = t.val

C4_FailureRestoresState ==
    [][\A t \in Running : participantRejects(t) => isWorkpaceTrusted' = ~t.val]_vars

\* C5: while a request is pending a further requestWorkspaceTrust call creates no
\* request and fires no signal: the callers share the one promise, for which one
\* signal was fired and which settles with one value.
C5_PendingRequestShared ==
    [][/\ rs.promise /\ requestWorkspaceTrust =>
            /\ rs' = rs
            /\ promise' \in {promise, [promise EXCEPT !.shared = TRUE]}
       /\ promise'.initiated <= 1]_vars

\* a promise two callers share was completed
C5_Witness ==
    /\ promise.shared /\ promise.initiated = 1
    /\ promise.value \in {"true", "false"}
    /\ ~rs.promise

\* C6: cancelRequest resolves a pending request with undefined and clears it, so the
\* next requestWorkspaceTrust call creates a request and fires the signal again;
\* without a pending request cancelRequest does nothing.
C6_CancelClearsRequest ==
    [][/\ cancelRequest /\ rs.resolver =>
            promise'.value = "undefined" /\ ~rs'.promise /\ ~rs'.resolver
       /\ cancelRequest /\ ~rs.resolver => UNCHANGED vars
       /\ requestWorkspaceTrust /\ ~rs.trusted /\ promise.by = "cancelRequest" =>
            /\ promise'.value = "pending" /\ promise'.initiated = 1 /\ ~promise'.shared
            /\ rs'.promise /\ rs'.resolver]_vars

\* a request was cancelled and the next call created a request and signalled
C6_Witness ==
    /\ promise.afterCancel /\ promise.value = "pending" /\ promise.initiated = 1
    /\ rs.promise /\ rs.resolver

\* C7, as the claim states it: a completeRequest or cancelRequest call after the
\* request was resolved, and before a new one, changes neither the pending-request
\* state nor the trust state nor the persisted list.
C7_CallAfterResolutionIsNoOp ==
    [][(/\ ~rs.promise /\ promise.value \in {"undefined", "true", "false"}
        /\ (cancelRequest \/ \E v \in {"undefined", "true", "false"} : completeRequest(v)))
       => UNCHANGED <<rs, promise, memento, storage, trustStateInfo>>]_vars

\* C8: completeRequest with undefined or with the cached value resolves the pending
\* request with the cached value, and persists nothing.
C8_CompleteWithCachedValue ==
    [][\A v \in {"undefined", Opt(rs.trusted)} : completeRequest(v) =>
          /\ promise'.value = (IF rs.resolver THEN Opt(rs.trusted) ELSE promise.value)
          /\ ~rs'.promise /\ ~rs'.resolver /\ rs'.trusted = rs.trusted
          /\ UNCHANGED <<memento, storage, trustStateInfo, tasks, failure>>]_vars

\* a request was resolved with the cached value by completeRequest itself
C8_Witness ==
    /\ promise.by = "completeRequest" /\ promise.value = Opt(rs.trusted)
    /\ ~rs.promise /\ ~rs.resolver
    /\ Running = {}

\* C9: completeRequest with a defined value other than the cached one resolves the
\* request only when setWorkspaceTrust has returned, and then with that value: the
\* call itself leaves the request pending.
C9_PersistThenResolve ==
    [][/\ \A v \in {"true", "false"} \ {Opt(rs.trusted)} : completeRequest(v) =>
            promise' = promise /\ rs'.promise = rs.promise /\ rs'.resolver = rs.resolver
       /\ promise' # promise /\ promise'.by = "setWorkspaceTrust" =>
            \E t \in Running :
                /\ t.op = "complete" /\ t.pc = "resolve"
                /\ promise'.value = t.arg
                /\ tasks' = tasks (-) SetToBag({t})]_vars

\* a request was resolved with true after the folder was persisted as trusted
C9_Witness ==
    /\ promise.by = "setWorkspaceTrust" /\ promise.value = "true"
    /\ workspace.kind = "FOLDER"
    /\ getUrisTrust(trustStateInfo.uriTrustInfo, <<UriAB>>)
    /\ storage = Stringify(trustStateInfo.uriTrustInfo)
    /\ isWorkpaceTrusted /\ rs.trusted

\* C10: a step that sets the trust state to false leaves acceptsOutOfWorkspaceFiles
\* false, whatever it was.
C10_UntrustedResetsAccepts ==
    [][/\ memento' # memento /\ memento'.isTrusted = "false" => ~AcceptsOf(memento')
       /\ \A t \in Running :
            t.pc = "cmp" /\ ~t.val /\ (initializeAssign(t) \/ (updateResume(t) /\ isWorkpaceTrusted))
                => ~AcceptsOf(memento')]_vars

\* the state was set to false while acceptsOutOfWorkspaceFiles was true
C10_Witness ==
    /\ memento.isTrusted = "false" /\ ~acceptsOutOfWorkspaceFiles
    /\ \E t \in Running : t.accepted /\ ~t.val /\ t.pc \in {"part", "fire"}

\* the trust feature is enabled: not on the web, and the setting (the user's value,
\* else the default) is true
TrustEnabled ==
    /\ ~env.isWeb
    /\ \/ env.userValue = "true"
       \/ env.userValue = "undefined" /\ env.defaultValue = "true"

\* C11: calculateWorkspaceTrust decides in this order, the first match winning:
\* trust disabled gives true; a test host gives true; a remote authority gives its
\* resolved isTrusted flag, false while unresolved or without the flag; an empty
\* window gives the isTrusted memento, false without it.
C11_DecisionTable ==
    [][\A t \in Running' :
          (/\ t.pc = "cmp"
           /\ CopiesIn(t, tasks') > CopiesIn(t, tasks)
           /\ ~\E u \in Running : calculateResume(u))
          => /\ ~TrustEnabled => t.val = TRUE
             /\ TrustEnabled /\ env.extensionTestsLocationURI => t.val = TRUE
             /\ TrustEnabled /\ ~env.extensionTestsLocationURI /\ env.remoteAuthority
                  => t.val = (remoteAuthority'.resolved /\ remoteAuthority'.isTrusted = "true")
             /\ TrustEnabled /\ ~env.extensionTestsLocationURI /\ ~env.remoteAuthority
                  /\ workspace'.kind = "EMPTY"
                  => t.val = (memento.isTrusted = "true")]_vars

\* with trust disabled the calculation gave true for a remote resolved as not trusted
C11_Witness ==
    /\ ~TrustEnabled /\ env.remoteAuthority
    /\ remoteAuthority.resolved /\ remoteAuthority.isTrusted = "false"
    /\ \E t \in Running : t.op = "remote" /\ t.pc = "cmp" /\ t.val

\* C12: for a local folder or workspace the calculated trust is true exactly when
\* every root, and the workspace file unless the workspace is untitled, is trusted
\* according to getUriTrustInfo.
C12_EveryUriTrusted ==
    [][\A u \in Running :
          calculateResume(u) /\ trustStateInfo.defined
          => \E t \in Running' :
                /\ t.pc = "cmp"
                /\ tasks' = (tasks (-) SetToBag({u})) (+) SetToBag({t})
                /\ t.val =
                     (/\ \A k \in 1..Len(u.uris) :
                            getUriTrustInfo(trustStateInfo.uriTrustInfo, u.uris[k]).trusted
                      /\ workspace.configuration # NoUri /\ ~workspace.untitled
                            => getUriTrustInfo(trustStateInfo.uriTrustInfo, workspace.configuration).trusted)]_vars

\* the folder of a saved workspace is trusted, its workspace file is not: untrusted
C12_Witness ==
    /\ workspace = SavedWorkspace /\ trustStateInfo.defined
    /\ getUriTrustInfo(trustStateInfo.uriTrustInfo, UriAB).trusted
    /\ ~getUriTrustInfo(trustStateInfo.uriTrustInfo, UriC).trusted
    /\ \E t \in Running : t.pc = "cmp" /\ t.uris = <<UriAB>> /\ ~t.val

\* the uris getUriTrustInfo is asked about
QueryUris == {UriA, UriAB, UriABC, UriC, UriV}

\* the list after setUrisTrust(uris, trusted) on the list info
AfterSetUrisTrust(info, uris, trusted) ==
    SetUrisTrustLoop(uris, trusted, 1, [list |-> info, changed |-> FALSE]).list

\* C13: getUriTrustInfo(uri) returns the entry with the longest path among those
\* equal to or an ancestor of uri, and {trusted: false, uri} when there is none; so
\* when /a/b/c matches /a, adding /a/b moves the match to /a/b and removing /a/b
\* again restores the match at /a.
C13_LongestMatch ==
    LET info == trustStateInfo.uriTrustInfo
    IN /\ \A uri \in QueryUris :
            LET r == getUriTrustInfo(info, uri)
                M == {j \in 1..Len(info) : isEqualOrParent(uri, info[j].uri)}
            IN IF M = {}
               THEN r = [trusted |-> FALSE, uri |-> uri]
               ELSE \E j \in M :
                       /\ r = [trusted |-> info[j].trusted, uri |-> info[j].uri]
                       /\ \A i \in M : Len(info[i].uri.path) <= Len(info[j].uri.path)
       /\ getUriTrustInfo(info, UriABC) = [trusted |-> TRUE, uri |-> UriA]
            => LET added == AfterSetUrisTrust(info, <<UriAB>>, TRUE)
                   removed == AfterSetUrisTrust(added, <<UriAB>>, FALSE)
               IN /\ getUriTrustInfo(added, UriABC) = [trusted |-> TRUE, uri |-> UriAB]
                  /\ getUriTrustInfo(removed, UriABC) = [trusted |-> TRUE, uri |-> UriA]

\* an entry was removed from the list, and /a/b/c matches /a
C13_Witness ==
    /\ getUriTrustInfo(trustStateInfo.uriTrustInfo, UriABC) = [trusted |-> TRUE, uri |-> UriA]
    /\ getUriTrustInfo(trustStateInfo.uriTrustInfo, UriV) = [trusted |-> FALSE, uri |-> UriV]
    /\ storage = Stringify(trustStateInfo.uriTrustInfo)
    /\ \E t \in Running : t.op = "uris" /\ t.arg = "false" /\ t.saved

\* C14: canSetWorkspaceTrust is false for a remote authority that is unresolved or
\* resolved with an explicit isTrusted; else true in an empty window; else true while
\* the workspace is untrusted; else true only for a single folder of the local file
\* system whose own entry is the matching one and whose parent folder is not trusted.
C14_CanSetWorkspaceTrust ==
    LET r == canSetWorkspaceTrust(env, remoteAuthority, workspace, memento, trustStateInfo)
        info == trustStateInfo.uriTrustInfo
        remoteFixed == env.remoteAuthority
                       /\ (~remoteAuthority.resolved \/ remoteAuthority.isTrusted \in {"true", "false"})
        singleLocal == workspace.kind = "FOLDER" /\ workspace.folders[1].scheme = "file"
        ownEntry == /\ \E j \in 1..Len(info) : info[j].uri = workspace.folders[1] /\ info[j].trusted
                    /\ getUriTrustInfo(info, workspace.folders[1]).uri = workspace.folders[1]
        parentTrusted == \E j \in 1..Len(info) :
                            /\ info[j].trusted
                            /\ isEqualOrParent(parentUri(workspace.folders[1]), info[j].uri)
    IN /\ remoteFixed => r = "false"
       /\ ~remoteFixed /\ workspace.kind = "EMPTY" => r = "true"
       /\ ~remoteFixed /\ workspace.kind # "EMPTY" /\ ~isWorkpaceTrusted => r = "true"
       /\ ~remoteFixed /\ workspace.kind # "EMPTY" /\ isWorkpaceTrusted
            => /\ r = "true" => singleLocal /\ ownEntry /\ ~parentTrusted
               /\ trustStateInfo.defined /\ singleLocal /\ ownEntry /\ ~parentTrusted => r = "true"

\* a trusted single folder with its own entry, covered by its trusted parent: refused
C14_Witness ==
    /\ workspace = SingleFolder /\ isWorkpaceTrusted /\ ~env.remoteAuthority
    /\ trustStateInfo.defined
    /\ getUriTrustInfo(trustStateInfo.uriTrustInfo, UriAB) = [trusted |-> TRUE, uri |-> UriAB]
    /\ getUriTrustInfo(trustStateInfo.uriTrustInfo, UriA).trusted
    /\ canSetWorkspaceTrust(env, remoteAuthority, workspace, memento, trustStateInfo) = "false"

\* C15: setUrisTrust is idempotent: a second call with the same arguments leaves the
\* list the first call made, and a call that does not change the list stores nothing,
\* fires no onDidChangeTrustedFolders and calls no updateWorkspaceTrust.
C15_SetUrisTrustIdempotent ==
    [][\A uris \in UrisChoices, trusted \in BOOLEAN :
          LET info == trustStateInfo.uriTrustInfo
              once == SetUrisTrustLoop(uris, trusted, 1, [list |-> info, changed |-> FALSE])
              twice == SetUrisTrustLoop(uris, trusted, 1, [list |-> once.list, changed |-> FALSE])
          IN /\ twice.list = once.list /\ ~twice.changed
             /\ SetUrisTrust(uris, trusted) /\ trustStateInfo.defined /\ ~once.changed
                  => UNCHANGED <<storage, trustStateInfo, tasks, failure, memento, rs>>
             /\ SetUrisTrust(uris, trusted) /\ trustStateInfo.defined /\ once.changed
                  => /\ trustStateInfo'.uriTrustInfo = once.list
                     /\ storage' = Stringify(once.list)
                     /\ \E t \in Running' : t.op = "uris" /\ t.saved]_vars

\* /a/b was added and stored, and a second setUrisTrust([/a/b], true) changes nothing
C15_Witness ==
    /\ \E t \in Running : t.op = "uris" /\ t.arg = "true" /\ t.saved
    /\ storage = Stringify(trustStateInfo.uriTrustInfo)
    /\ \E j \in 1..Len(trustStateInfo.uriTrustInfo) : trustStateInfo.uriTrustInfo[j].uri = UriAB
    /\ ~SetUrisTrustLoop(<<UriAB>>, TRUE, 1,
                         [list |-> trustStateInfo.uriTrustInfo, changed |-> FALSE]).changed

\* C16: the list of trusted folders in memory holds entries with trusted = true only:
\* stored entries with trusted = false are dropped when the list is loaded, untrusting
\* a uri removes its entry, and setUrisTrust and setTrustedFolders add trusted entries.
C16_OnlyTrustedEntries ==
    \A j \in 1..Len(trustStateInfo.uriTrustInfo) : trustStateInfo.uriTrustInfo[j].trusted = TRUE

\* the list was loaded from a stored value with a negative entry, which is gone
C16_Witness ==
    /\ trustStateInfo.defined
    /\ storage = Stringify(<<[uri |-> UriA, trusted |-> FALSE], [uri |-> UriC, trusted |-> TRUE]>>)
    /\ trustStateInfo.uriTrustInfo = <<[uri |-> UriC, trusted |-> TRUE]>>

\* C17, as the claim states it: setWorkspaceTrust before initializeWorkspaceTrust
\* rejects for every kind of workspace and leaves the trust state as it was: the call
\* starts no transition and stores nothing.
C17_SetBeforeInitializeRejects ==
    [][\A trusted \in BOOLEAN :
          ~trustStateInfo.defined /\ SetWorkspaceTrust(trusted)
          => /\ memento' = memento
             /\ \A t \in Running' : tasks' = tasks (+) SetToBag({t}) => t.pc = "wsUris"]_vars

\* C18: in an empty window without a memento isWorkpaceTrusted() is false after the
\* initialization; setWorkspaceTrust(true) then stores true, and when it completes
\* it has fired onDidChangeTrust once, with true.
C18_EmptyWindowBecomesTrusted ==
    [][/\ \A t \in Running :
            initializeAssign(t) /\ workspace.kind = "EMPTY" /\ memento.isTrusted = "undefined"
            => ~isWorkpaceTrusted'
       /\ workspace.kind = "EMPTY" /\ ~isWorkpaceTrusted /\ SetWorkspaceTrust(TRUE)
            => /\ isWorkpaceTrusted'
               /\ \E t \in Running' : t.op = "set" /\ t.val /\ t.pc \in {"part", "fire"} /\ ~t.fired
       /\ \A t \in Running :
            t.op = "set" /\ t.arg = "true" /\ workspace.kind = "EMPTY" /\ fireDidChangeTrust(t)
            => /\ t.val /\ ~t.fired
               /\ rs'.trusted
               /\ tasks' = tasks (-) SetToBag({t})]_vars

\* an empty window was initialized and then trusted: the state and the last event are true
C18_Witness ==
    /\ workspace.kind = "EMPTY" /\ trustStateInfo.defined
    /\ memento = [isTrusted |-> "true", acceptsOutOfWorkspaceFiles |-> "false"]
    /\ rs.trusted
    /\ Running = {} /\ participants.count = 0

\* C19: initializeWorkspaceTrust loads the list of trusted folders and assigns the
\* calculated state: it runs no participant and fires neither onDidChangeTrust nor
\* onDidChangeTrustedFolders, whatever the value.
C19_InitializeIsSilent ==
    [][/\ initializeWorkspaceTrust
            => /\ trustStateInfo' = [defined |-> TRUE, uriTrustInfo |-> loadTrustInfo(storage)]
               /\ UNCHANGED <<memento, rs, storage>>
       /\ \A t \in Running :
            initializeAssign(t)
            => /\ memento'.isTrusted = Opt(t.val)
               /\ tasks' = tasks (-) SetToBag({t})
               /\ UNCHANGED <<rs, storage, trustStateInfo, failure>>
       /\ \A t \in Running' :
            t.op = "init" => t.pc \in {"calcUris", "cmp"} /\ ~t.fired /\ ~t.saved]_vars

\* the initialization of a folder found no trusted folders stored and set the state to
\* false with a participant registered: the request service's value is the old one
C19_Witness ==
    /\ workspace.kind = "FOLDER" /\ storage.json = "absent"
    /\ trustStateInfo.defined /\ participants.count >= 1
    /\ Running = {}
    /\ rs.trusted /\ ~isWorkpaceTrusted

\* C20: updateWorkspaceTrust does nothing when the value, given or calculated, is the
\* current state: no participant runs, no event is fired, the stored state stays.
C20_UpdateWithSameValue ==
    [][/\ \A t \in Running :
            updateResume(t) /\ t.val = isWorkpaceTrusted
            => /\ tasks' = With(tasks (-) SetToBag({t}), Continue(t))
               /\ UNCHANGED <<memento, rs, storage, trustStateInfo>>
       /\ \A trusted \in BOOLEAN :
            SetWorkspaceTrust(trusted) /\ workspace.kind = "EMPTY" /\ trusted = isWorkpaceTrusted
            => UNCHANGED <<memento, rs, tasks, storage, trustStateInfo>>
       /\ \A trusted \in {"true", "false"} \ {Opt(rs.trusted)} :
            completeRequest(trusted) /\ workspace.kind = "EMPTY" /\ trusted = Opt(isWorkpaceTrusted)
            => /\ UNCHANGED <<memento, storage, trustStateInfo>>
               /\ rs'.trusted = rs.trusted
               /\ \E t \in Running' :
                     /\ t.op = "complete" /\ t.pc = "resolve" /\ ~t.fired
                     /\ tasks' = tasks (+) SetToBag({t})]_vars

\* in an empty window completeRequest passed the current state on: nothing was fired
C20_Witness ==
    /\ workspace.kind = "EMPTY"
    /\ \E t \in Running :
          /\ t.op = "complete" /\ t.pc = "resolve" /\ ~t.fired
          /\ t.arg = Opt(isWorkpaceTrusted)

\* a remote window whose authority is not resolved, with the trust feature in force
RemoteUnresolved ==
    /\ TrustEnabled /\ ~env.extensionTestsLocationURI
    /\ env.remoteAuthority /\ ~remoteAuthority.resolved

\* C21, as the claim states it: in a remote window, until the remote authority is
\* resolved (and for good when the resolution fails), every trust calculation yields
\* false and isWorkpaceTrusted() is false after the initialization, whatever operation
\* is invoked.
C21_UntrustedUntilResolved ==
    [][RemoteUnresolved /\ ~remoteAuthority'.resolved =>
          /\ \A t \in Running' :
                t.pc = "cmp" /\ CopiesIn(t, tasks') > CopiesIn(t, tasks) => ~t.val
          /\ \A t \in Running : initializeAssign(t) => ~isWorkpaceTrusted'
          /\ Initialized /\ ~isWorkpaceTrusted => ~isWorkpaceTrusted']_vars

\* C22: the resolution of the remote authority calls updateWorkspaceTrust once, and
\* the startup signal fires once, from the continuation that awaited this update: after
\* the update returned at its comparison, or after it ran its participants and fired
\* onDidChangeTrust.
C22_UpdateThenStartupSignal ==
    [][/\ \A isTrusted \in {"undefined", "true", "false"} :
            resolveAuthority(isTrusted)
            => /\ ~remoteAuthority.resolved /\ remoteAuthority'.resolved
               /\ \E t \in Running' :
                     /\ t.op = "remote" /\ t.pc = "cmp" /\ ~t.fired
                     /\ tasks' = tasks (+) SetToBag({t})
       /\ remoteAuthority.resolved => remoteAuthority' = remoteAuthority
       /\ \A t \in Running' :
            t.op = "remote" /\ CopiesIn(t, tasks') > CopiesIn(t, tasks)
            => /\ CopiesIn(t, tasks') = 1
               /\ \A u \in Running' : u.op = "remote" => u = t
               /\ \A u \in Running : u.op = "remote" => tasks' = (tasks (-) SetToBag({u})) (+) SetToBag({t})
       /\ \A t \in Running :
            startupRequest(t)
            => /\ t.op = "remote" /\ t.pc = "signal"
               /\ tasks' = tasks (-) SetToBag({t})
       /\ \A t \in Running' :
            t.pc = "signal" /\ CopiesIn(t, tasks') > CopiesIn(t, tasks)
            => \E u \in Running :
                  /\ u.op = "remote"
                  /\ tasks' = (tasks (-) SetToBag({u})) (+) SetToBag({t})
                  /\ \/ u.pc = "cmp" /\ u.val = isWorkpaceTrusted /\ ~t.fired /\ UNCHANGED <<memento, rs>>
                     \/ u.pc = "fire" /\ t.fired /\ rs'.trusted = u.val]_vars

\* the update of the resolution ran a participant and fired its event: the signal is due
C22_Witness ==
    /\ remoteAuthority.resolved /\ participants.count >= 1
    /\ \E t \in Running : t.op = "remote" /\ t.pc = "signal" /\ t.fired /\ rs.trusted = t.val

C24_ReloadsAreSerialized ==
    [][\A t \in Running :
          onDidChangeValueDelivered(t) /\ trustStateInfo' # trustStateInfo
          => \A u \in Running : u.pc # "part"]_vars

\* the operations of the bag b that ran saveTrustInfo
Saved(b) == LET S == {t \in BagToSet(b) : t.saved} IN BagCardinality([t \in S |-> b[t]])

\* this step runs saveTrustInfo: one more operation in flight has stored the list and
\* fired onDidChangeTrustedFolders
SavesTrustInfo == Saved(tasks') > Saved(tasks)

\* this step is the storage listener reloading the list and firing onDidChangeTrustedFolders
ReloadsTrustInfo ==
    \E t \in Running : onDidChangeValueDelivered(t) /\ trustStateInfo' # trustStateInfo

\* a change event for the key of the trusted folders is queued for this window
ChangePosted == \E t \in Running : t.pc = "posted" /\ t.arg = storageKey

\* C25, as the claim states it: whenever onDidChangeTrustedFolders or onDidChangeTrust
\* fires, the stored value is the serialization of the list in memory.
C25_StoredIsSerialization ==
    [][SavesTrustInfo \/ ReloadsTrustInfo \/ (\E t \in Running : fireDidChangeTrust(t))
       => /\ trustStateInfo'.defined
          /\ storage' = Stringify(trustStateInfo'.uriTrustInfo)]_vars

\* C25, amended: when saveTrustInfo fires onDidChangeTrustedFolders the list is mutated
\* and stored, the stored value being its serialization; when the storage listener
\* fires it, the list is what the stored value loads as; and when onDidChangeTrust
\* fires with a list in memory, the stored value loads as that list, unless another
\* window has stored a value whose change event is still to be delivered.
C25_EventsAfterPersist ==
    [][/\ SavesTrustInfo
          => trustStateInfo'.defined /\ storage' = Stringify(trustStateInfo'.uriTrustInfo)
       /\ ReloadsTrustInfo
          => trustStateInfo'.defined /\ trustStateInfo'.uriTrustInfo = loadTrustInfo(storage')
       /\ (\E t \in Running : fireDidChangeTrust(t)) /\ trustStateInfo.defined
          => trustStateInfo.uriTrustInfo = loadTrustInfo(storage) \/ ChangePosted]_vars

\* setTrustedFolders stored its list and fired onDidChangeTrustedFolders; its update ran
\* the participant and is about to fire onDidChangeTrust
C25_Witness ==
    /\ storage = Stringify(<<[uri |-> UriA, trusted |-> TRUE]>>)
    /\ trustStateInfo.uriTrustInfo = <<[uri |-> UriA, trusted |-> TRUE]>>
    /\ \E t \in Running : t.op = "folders" /\ t.saved /\ t.pc = "fire"

\* the trust calculateWorkspaceTrust yields for the list info
CalculatedTrust(e, ws, ra, m, info) ==
    LET t == calculateWorkspaceTrust(NoTask, e, ws, ra, m)
    IN IF t.pc = "cmp" THEN t.val ELSE getUrisTrust(info, WorkspaceUris(t.uris, ws))

\* C26: of two windows that share the storage, each one, once every change event is
\* delivered to it and none of its operations is in flight, holds the list that is
\* stored, and its trust state is the trust calculated from that list; so both hold
\* the same list.  The other window is what stores values and causes the events.
C26_WindowsConverge ==
    tasks = EmptyBag /\ trustStateInfo.defined
    => /\ trustStateInfo.uriTrustInfo = loadTrustInfo(storage)
       /\ isWorkpaceTrusted = CalculatedTrust(env, workspace, remoteAuthority, memento,
                                              trustStateInfo.uriTrustInfo)

\* the window took over the list the other window stored, and its folder lost its trust
C26_Witness ==
    /\ tasks = EmptyBag /\ workspace = SingleFolder
    /\ storage = Stringify(<<[uri |-> UriC, trusted |-> TRUE]>>)
    /\ trustStateInfo.uriTrustInfo = <<[uri |-> UriC, trusted |-> TRUE]>>
    /\ ~isWorkpaceTrusted /\ ~rs.trusted /\ participants.count >= 1

\* one of the uris has no trusted entry in the list
SomeUntrusted(uris) ==
    \E k \in 1..Len(uris) : ~getUriTrustInfo(trustStateInfo.uriTrustInfo, uris[k]).trusted

\* this step is a requestOpenUris that returns response without a dialog
ReturnsAtOnce(uris, response) ==
    /\ rs' = [rs EXCEPT !.response = response, !.request = uris, !.asked = FALSE]
    /\ UNCHANGED <<tasks, memento>>
    /\ failure' = NoTask

\* this step is a requestOpenUris that shows its dialog
ShowsDialog(uris) ==
    /\ Dialogs' = Dialogs + 1
    /\ \E t \in Running' : t.pc = "dialog" /\ t.uris = uris /\ tasks' = tasks (+) SetToBag({t})
    /\ UNCHANGED <<rs, memento>>

\* C27: requestOpenUris, once the list of trusted folders is loaded, returns Open when
\* the cached trust is false; else Open when every uri is trusted (none given
\* included); else OpenInNewWindow or Open when the setting is newWindow or open; else
\* Open when acceptsOutOfWorkspaceFiles is true; and shows the dialog in what is left.
C27_DecisionOrder ==
    [][\A uris \in OpenChoices :
          RequestOpenUris(uris) /\ (trustStateInfo.defined \/ uris = <<>> \/ ~rs.trusted)
          => IF ~rs.trusted THEN ReturnsAtOnce(uris, "Open")
             ELSE IF ~SomeUntrusted(uris) THEN ReturnsAtOnce(uris, "Open")
             ELSE IF rs.untrustedFilesSetting = "newWindow" THEN ReturnsAtOnce(uris, "OpenInNewWindow")
             ELSE IF rs.untrustedFilesSetting = "open" THEN ReturnsAtOnce(uris, "Open")
             ELSE IF acceptsOutOfWorkspaceFiles THEN ReturnsAtOnce(uris, "Open")
             ELSE ShowsDialog(uris)]_vars

\* the dialog is shown for an untrusted file in a trusted workspace
C27_Witness ==
    /\ rs.trusted /\ rs.untrustedFilesSetting = "prompt" /\ ~acceptsOutOfWorkspaceFiles
    /\ \E t \in Running : t.pc = "dialog" /\ t.uris = <<UriAB, UriC>>

\* the setting after the dialog's answer choice with the checkbox at checked
SettingAfter(choice, checked) ==
    IF checked /\ choice = 0 THEN "open"
    ELSE IF checked /\ choice = 1 THEN "newWindow"
    ELSE rs.untrustedFilesSetting

\* the answers to a dialog change the setting only with the checkbox checked and the
\* choice Open or Open in Restricted Mode, and Cancel changes neither the setting nor the
\* memento; nothing else changes the setting
AnswerIsSaved ==
    /\ \A t \in Running, choice \in 0..2, checked \in BOOLEAN :
          dialogShowResolves(t, choice, checked)
          => /\ rs'.untrustedFilesSetting = SettingAfter(choice, checked)
             /\ choice = 2 => rs'.response = "Cancel" /\ memento' = memento
    /\ rs'.untrustedFilesSetting # rs.untrustedFilesSetting
       => \E t \in Running, choice \in 0..1 : dialogShowResolves(t, choice, TRUE)

\* C28, as the claim states it: the answer is persisted only with 'remember' checked
\* and the choice Open or OpenInNewWindow, Cancel changes nothing, and after an Open
\* with 'remember' every later requestOpenUris with an untrusted uri returns Open without
\* a dialog.
C28_RememberedOpenForGood ==
    [][/\ AnswerIsSaved
       /\ \A uris \in OpenChoices :
             rs.remembered /\ SomeUntrusted(uris) /\ RequestOpenUris(uris)
             => ReturnsAtOnce(uris, "Open")]_vars

\* C28, amended: the same, the later calls returning Open without a dialog for as long
\* as the setting is open: the answer Open in Restricted Mode with 'remember' to a dialog
\* that was already shown replaces it.
C28_RememberedOpen ==
    [][/\ AnswerIsSaved
       /\ \A uris \in OpenChoices :
             /\ rs.remembered /\ rs.untrustedFilesSetting = "open"
             /\ SomeUntrusted(uris) /\ RequestOpenUris(uris)
             => ReturnsAtOnce(uris, "Open")]_vars

\* after Open with 'remember' the workspace lost its trust and got it back, which resets
\* acceptsOutOfWorkspaceFiles; a later call for an untrusted file returned Open at once
C28_Witness ==
    /\ rs.remembered /\ rs.untrustedFilesSetting = "open"
    /\ rs.trusted /\ ~acceptsOutOfWorkspaceFiles
    /\ rs.request = <<UriC>> /\ rs.response = "Open" /\ ~rs.asked

\* the participants that are registered and not removed
Registered == {n \in 1..participants.count : n \notin participants.removed}

\* the first participant registered after n that is not removed, 0 when there is none
RegisteredAfter(n) ==
    LET S == {m \in Registered : m > n}
    IN IF S = {} THEN 0 ELSE CHOOSE m \in S : \A k \in S : m <= k

\* C29: a participate call starts with the first registered participant that is not
\* removed and fires without an await when there is none; it goes on only when the
\* running participant has settled, then to the next one in registration order (for a
\* running participant still registered: the first not removed that was registered after
\* it), or to its end; one operation never has two participants running; and no
\* participant that was disposed before the call is invoked.
C29_ParticipantsInOrder ==
    [][/\ \A u \in Running' :
            u.pc \in {"part", "fire"} /\ CopiesIn(u, tasks') > CopiesIn(u, tasks)
            => \/ \E t \in Running :
                     /\ participantResolves(t)
                     /\ u = [t EXCEPT !.pc = u.pc, !.node = u.node]
                     /\ IF u.pc = "part" THEN u.node > t.node ELSE u.node = 0
                     /\ t.node \in Registered
                        => u.node = RegisteredAfter(t.node) /\ (u.pc = "fire") = (u.node = 0)
               \/ /\ \A t \in Running : ~participantResolves(t)
                  /\ u.disposed = participants.removed
                  /\ u.node = RegisteredAfter(0)
                  /\ (u.pc = "fire") = (u.node = 0)
       /\ \A u \in Running' : u.pc = "part" => u.node \in 1..participants'.count /\ u.node \notin u.disposed
       /\ \A t \in Running :
            t.pc = "part" /\ CopiesIn(t, tasks') < CopiesIn(t, tasks)
            => participantResolves(t) \/ participantRejects(t)]_vars

\* the second participant runs: the first one has settled, none was removed
C29_Witness ==
    /\ participants.count = 2 /\ participants.removed = {}
    /\ \E t \in Running : t.pc = "part" /\ t.node = 2 /\ t.disposed = {}

\* C30, as the claim states it: loadTrustInfo never fails; no error reaches
\* initializeWorkspaceTrust or the storage listener, and a stored value that is absent,
\* is no JSON or has no uriTrustInfo list loads as the empty list.
C30_LoadNeverFails ==
    [][initializeWorkspaceTrust \/ (\E stored2 \in StoredKinds : onDidChangeValue(stored2))
       => /\ failure'.err # "load"
          /\ trustStateInfo'.defined
          /\ storage'.json # "object" => trustStateInfo'.uriTrustInfo = <<>>]_vars

\* C31, as the claim states it: when the promise of requestWorkspaceTrust resolves with
\* true, isWorkpaceTrusted() is true, and when it resolves with false, it is false.
C31_ResolvedValueIsTrustState ==
    [][promise.value = "pending" /\ promise'.value \in {"true", "false"}
       => isWorkpaceTrusted' = (promise'.value = "true")]_vars

\* this step ends the setWorkspaceTrust call t without an error
SetWorkspaceTrustReturns(t) ==
    /\ t.op = "set"
    /\ tasks' = tasks (-) SetToBag({t})
    /\ CopiesIn(t, tasks) > 0
    /\ failure' = failure

\* C32, as the claim states it: when canSetWorkspaceTrust() is false as
\* setWorkspaceTrust(t) is called, isWorkpaceTrusted() is after the call what it was
\* before it.
C32_OnlyWhenModifiable ==
    [][\A t \in Running :
          SetWorkspaceTrustReturns(t) /\ t.canSet = "false" => isWorkpaceTrusted' = t.was]_vars

\* C33, as the claim states it: when canSetWorkspaceTrust() is true as
\* setWorkspaceTrust(t) is called and the call ends without an error, isWorkpaceTrusted()
\* is t after it.
C33_SetTakesEffect ==
    [][/\ \A t \in Running :
            SetWorkspaceTrustReturns(t) /\ t.canSet = "true"
            => isWorkpaceTrusted' = (t.arg = "true")
       /\ \A trusted \in BOOLEAN :
            /\ SetWorkspaceTrustRecorded(trusted) /\ tasks' = tasks /\ failure' = NoTask
            /\ canSetWorkspaceTrust(env, remoteAuthority, workspace, memento, trustStateInfo) = "true"
            => isWorkpaceTrusted' = trusted]_vars

\* C34, as the claim states it: whenever no trust update is in progress, the trust
\* value cached by the request service is isWorkpaceTrusted().
C34_CacheFollowsState ==
    tasks = EmptyBag => rs.trusted = isWorkpaceTrusted

\* C35, as the claim states it: in every reachable state, acceptsOutOfWorkspaceFiles
\* true implies isWorkpaceTrusted() true.
C35_AcceptsOnlyWhenTrusted ==
    acceptsOutOfWorkspaceFiles => isWorkpaceTrusted

\* C36, as the claim states it: when a request is pending and completeRequest(v) is
\* called, the request is eventually resolved and its slot cleared.
C36_CompleteRequestSettles ==
    (rs.resolver /\ \E t \in Running : t.op = "complete") ~> ~rs.resolver

\* C37, as the claim states it: when the request was resolved with undefined by
\* cancelRequest, the trust state and the stored list are what they were when the
\* request was created.
C37_CancelAppliesNothing ==
    promise.value = "undefined" /\ promise.by = "cancelRequest"
    => isWorkpaceTrusted = promise.created.trusted /\ storage = promise.created.stored

\* an empty local window with the trust feature in force
EmptyLocalWindow ==
    /\ workspace.kind = "EMPTY" /\ ~env.remoteAuthority
    /\ TrustEnabled /\ ~env.extensionTestsLocationURI

\* C38: in an empty local window with workspace trust enabled, an updateWorkspaceTrust()
\* called without a value by the listeners of the workspace and storage services
\* calculates the current state and returns at the comparison: it changes nothing, runs
\* no participant and fires no event; the trust state of the window changes only in a
\* call of setWorkspaceTrust.
C38_EmptyWindowKeepsTrust ==
    [][EmptyLocalWindow /\ workspace' = workspace
       => /\ isWorkpaceTrusted' # isWorkpaceTrusted
             => \E trusted \in BOOLEAN : SetWorkspaceTrust(trusted)
          /\ \A t \in Running :
                t.op \in {"event", "storage"} /\ updateResume(t)
                => /\ tasks' = tasks (-) SetToBag({t})
                   /\ UNCHANGED <<memento, rs, failure>>]_vars

\* the list of another window was taken over in a trusted empty window, and
\* updateWorkspaceTrust has calculated the state
C38_Witness ==
    /\ EmptyLocalWindow /\ isWorkpaceTrusted
    /\ trustStateInfo.uriTrustInfo = <<[uri |-> UriC, trusted |-> TRUE]>>
    /\ \E t \in Running : t.op = "storage" /\ t.pc = "cmp" /\ t.val

\* C39, as the claim states it: _scanExtensionsWithCache writes the cache file only
\* after a scan that is not in dev mode and during which the logger's error() was
\* never called.
C39_CachedOnlyWithoutErrors ==
    [][extensionScan'.written /\ ~extensionScan.written
       => ~extensionScan.devMode /\ extensionScan.errors = 0]_vars

\* C40, as the claim states it: for one extension and one feature that requires the
\* user's consent, at most one consent dialog is ever shown, and the dialogs are not
\* answered in two ways.
C40_ConsentAskedOnce ==
    extensionFeature.shown <= 1 /\ Cardinality(extensionFeature.answers) <= 1

====
